---- MODULE Spec2Model ----
(***************************************************************************)
(* Authentication / authorization core of prjCyberA3: bearer tokens,       *)
(* API keys, password-change revocation, the permission gate, the login    *)
(* rate limiter and the Shopify webhook verifier.                          *)
(*                                                                         *)
(* Optional values (null / undefined in the source) are sequences of       *)
(* length at most one: None is <<>>, Some(v) is <<v>>.                      *)
(* Time is Date.now() in milliseconds; the backing store (Supabase) is a   *)
(* set of rows per table and every store call is atomic.                   *)
(***************************************************************************)
EXTENDS Integers, Sequences, FiniteSets, TLC

None == <<>>
Some(v) == <<v>>
IsSome(o) == o # <<>>
Get(o) == o[1]

\* ---------------------------------------------------------------- bounds
\* Last clock value (ms) the model explores.
MaxNow == 11000
\* Bearer tokens ever signed in one behaviour.
MaxTokens == 2
\* API-key rows ever inserted in one behaviour.
MaxKeys == 1
\* last_used_at writes in flight at one time.
MaxPending == 1

\* Clock advances between two events.
TickSteps == {500}
\* Request inputs.
Emails == {"a@x", "A@x", "b@x"}
Passwords == {"correct-horse", "battery-staple"}
KeyNames == {"ci"}

\* ---------------------------------------------------------- library facts
\* String.prototype.toLowerCase on the e-mail inputs.
toLowerCase(e) == IF e = "A@x" THEN "a@x" ELSE e

\* bcrypt.hash / bcrypt.compare: the hash determines the password.
BcryptHash(p) == [bcrypt |-> p]
BcryptCompare(p, h) == h = BcryptHash(p)

\* crypto.createHash("sha256").update(raw).digest("hex"): injective on the
\* inputs of the model.
hashKey(raw) == [sha256 |-> raw]

\* crypto.createHmac("sha256", API_KEY_SECRET).update(token).digest("hex")
HmacHex(token) == [hmac |-> token]

\* Seven days, the default expiresIn of signJwt, in seconds.
JWT_EXPIRES_IN_S == 604800

\* --------------------------------------------------------------- the state
VARIABLES
    now,          \* Date.now(), ms
    users,        \* table users: set of rows
    roles,        \* table roles: set of rows
    api_keys,     \* table api_keys: set of rows
    tokens,       \* bearer tokens signed so far with JWT_SECRET
    keysOut,      \* plaintext API keys handed out in issuance responses
    touches,      \* last_used_at writes started by authorizer, not yet applied
    lastLoginAttempt, \* the Map of routes/auth.ts: normalized e-mail -> ms
    loginLog,     \* the login attempts handled so far, oldest first
    gateRun,      \* one run of requirePermission: req.user, permission, outcome
    sales,        \* products.sales_count by shopify_id
    hook,         \* SHOPIFY_WEBHOOK_SECRET and the last webhook request handled
    issuing,      \* POST /api-keys requests between their name check and their insert
    verifying,    \* verifyApiKey calls waiting for their last_used_at update
    listed        \* the last answer to a listing of API keys

\* What the /auth, /api-keys and user routes leave alone.
rest == <<gateRun, sales, hook, issuing, verifying, listed>>

vars == <<now, users, roles, api_keys, tokens, keysOut, touches,
          lastLoginAttempt, loginLog, rest>>

\* ------------------------------------------------------------------ tokens
\* jwt.sign(payload, JWT_SECRET, { expiresIn }): iat is the current time in
\* whole seconds.  ms is the instant of signing (not part of the token).
signJwt(payload, t) ==
    [userId |-> payload.userId, email |-> payload.email,
     iat |-> Some(t \div 1000), exp |-> Some((t \div 1000) + JWT_EXPIRES_IN_S),
     sig |-> "server", ms |-> t]

\* A token the server never signed.
ForgedToken ==
    [userId |-> Some(1), email |-> "a@x", iat |-> Some(9), exp |-> Some(JWT_EXPIRES_IN_S),
     sig |-> "forged", ms |-> 0]

\* jwt.verify(token, JWT_SECRET): Some(payload), or None when it throws.
verifyJwt(token, t) ==
    IF token.sig = "server" /\ (IsSome(token.exp) => (t \div 1000) < Get(token.exp))
    THEN Some(token)
    ELSE None

\* ------------------------------------------------------------ store reads
\* A request runs under one store condition: "none" (the store answers),
\* "users" / "roles" / "api_keys" (queries on that table come back with an
\* error and no data), "throw" (the first store call of the request throws).
\* "touch": the last_used_at update of verifyApiKey comes back with an error.
Faults == {"none", "users", "roles", "api_keys", "throw", "touch"}

\* supabase.from(T).select(..).eq(..).single(): an error when the table is
\* failing or when no row matches, otherwise the row.
Single(rows, failing) ==
    IF failing \/ rows = {}
    THEN [data |-> None, error |-> TRUE]
    ELSE [data |-> Some(CHOOSE r \in rows : TRUE), error |-> FALSE]

\* ----------------------------------------------------------- permissions
PermissionKeys ==
    {"can_post_login", "can_get_my_user", "can_get_users", "can_post_products",
     "can_post_product_images", "can_get_my_bestsellers"}

\* Outcome of a middleware: status 0 means next() was called.
Outcome(status, error) == [status |-> status, error |-> error]
CallNext == Outcome(0, "")

\* Variant of requirePermission that refuses only a permission set to false.
requirePermission_NotFalse(permission, reqUser) ==
    IF ~IsSome(reqUser) THEN Outcome(401, "Unauthorized")
    ELSE LET role == Get(reqUser).role IN
         IF ~IsSome(role) THEN Outcome(403, "Forbidden: no role assigned")
         ELSE IF permission \in DOMAIN Get(role) /\ Get(role)[permission] = FALSE
              THEN Outcome(403, "Forbidden: insufficient permissions")
              ELSE CallNext

\* requirePermission(permission)(req, res, next); reqUser is req.user.
requirePermission(permission, reqUser) ==
    IF ~IsSome(reqUser) THEN Outcome(401, "Unauthorized")
    ELSE LET role == Get(reqUser).role IN
         IF ~IsSome(role) THEN Outcome(403, "Forbidden: no role assigned")
         ELSE IF ~(permission \in DOMAIN Get(role) /\ Get(role)[permission] = TRUE)
              THEN Outcome(403, "Forbidden: insufficient permissions")
              ELSE CallNext

\* --------------------------------------------------------------- authorizer
\* What the middleware did with a request: the response it sent (status 0:
\* none, next() called), req.user and req.authMethod, the tables it read in
\* order, and the api_keys row whose last_used_at write it started.
AuthResult(status, error, user, authMethod, reads, touch) ==
    [status |-> status, error |-> error, user |-> user, authMethod |-> authMethod,
     reads |-> reads, touch |-> touch]

AuthDeny(status, error, reads, touch) ==
    AuthResult(status, error, None, None, reads, touch)

\* normalizeRoleName: String(name).trim(); a missing name gives null.  The
\* role names of the model carry no surrounding blanks.
normalizeRoleName(name) == name

\* Variant of the role lookup that answers from the rows read at startup.
LoadRole_Startup(userRow, fault) ==
    IF ~IsSome(userRow.role) THEN [roleObj |-> None, reads |-> <<>>]
    ELSE LET startup == {[name |-> n, can_post_login |-> TRUE, can_get_my_user |-> TRUE,
                          can_get_users |-> FALSE, can_post_products |-> TRUE,
                          can_post_product_images |-> n = "PREMIUM",
                          can_get_my_bestsellers |-> n = "PREMIUM"] : n \in {"USER", "PREMIUM"}}
             q == Single({r \in startup : r.name = Get(userRow.role)}, fault = "roles")
         IN [roleObj |-> IF q.error THEN None ELSE q.data, reads |-> <<"roles">>]

\* Lines 61-83 and 139-160: the role row of userRow.role, null when the user
\* has no role, the query fails or no row has that name.
LoadRole(userRow, fault) ==
    IF ~IsSome(userRow.role) THEN [roleObj |-> None, reads |-> <<>>]
    ELSE LET q == Single({r \in roles : r.name = Get(userRow.role)}, fault = "roles")
         IN [roleObj |-> IF q.error THEN None ELSE q.data, reads |-> <<"roles">>]

RoleNameOf(userRow, roleObj) ==
    IF IsSome(roleObj) THEN normalizeRoleName(Some(Get(roleObj).name))
    ELSE normalizeRoleName(userRow.role)

\* Variants of the revocation check: password_changed_at compared in
\* milliseconds against iat in seconds; tokens of the second of the change
\* rejected as well; the check left out.
TokenRevoked_Millis(password_changed_at, tokenIat) ==
    /\ IsSome(password_changed_at)
    /\ IsSome(tokenIat) /\ Get(tokenIat) # 0
    /\ Get(tokenIat) < Get(password_changed_at)

TokenRevoked_SameSecond(password_changed_at, tokenIat) ==
    /\ IsSome(password_changed_at)
    /\ IsSome(tokenIat) /\ Get(tokenIat) # 0
    /\ Get(tokenIat) <= Get(password_changed_at) \div 1000

TokenRevoked_Skipped(password_changed_at, tokenIat) ==
    /\ IsSome(password_changed_at)
    /\ IsSome(tokenIat) /\ Get(tokenIat) # 0
    /\ FALSE

\* Lines 52-59: the token was issued before the password change.
TokenRevoked(password_changed_at, tokenIat) ==
    /\ IsSome(password_changed_at)
    /\ IsSome(tokenIat) /\ Get(tokenIat) # 0
    /\ Get(tokenIat) < Get(password_changed_at) \div 1000

\* Variant of the bearer-token flow that loads the role before it tests the
\* revocation.
AuthorizerJwt_RoleFirst(token, fault) ==
    LET v == verifyJwt(token, now) IN
    IF ~IsSome(v) THEN AuthDeny(401, "Invalid or expired token", <<>>, None)
    ELSE
    LET payload == Get(v)
        tokenIat == payload.iat
    IN
    IF ~IsSome(payload.userId) THEN AuthDeny(401, "Invalid token payload", <<>>, None)
    ELSE IF fault = "throw" THEN AuthDeny(500, "Internal server error", <<"users">>, None)
    ELSE
    LET q == Single({r \in users : r.id = Get(payload.userId)}, fault = "users") IN
    IF q.error \/ ~IsSome(q.data)
    THEN AuthDeny(401, "Invalid token user", <<"users">>, None)
    ELSE
    LET userRow == Get(q.data)
        role == LoadRole(userRow, fault)
    IN
    IF TokenRevoked(userRow.password_changed_at, tokenIat)
    THEN AuthDeny(401, "Invalid or expired token", <<"users">> \o role.reads, None)
    ELSE
    AuthResult(0, "",
        Some([id |-> userRow.id, email |-> userRow.email, role |-> role.roleObj,
              roleName |-> RoleNameOf(userRow, role.roleObj),
              apiKeyId |-> None, apiKeyName |-> None]),
        Some("jwt"), <<"users">> \o role.reads, None)

\* Lines 27-98: the bearer-token flow.
AuthorizerJwt(token, fault) ==
    LET v == verifyJwt(token, now) IN
    IF ~IsSome(v) THEN AuthDeny(401, "Invalid or expired token", <<>>, None)
    ELSE
    LET payload == Get(v)
        tokenIat == payload.iat
    IN
    IF ~IsSome(payload.userId) THEN AuthDeny(401, "Invalid token payload", <<>>, None)
    ELSE IF fault = "throw" THEN AuthDeny(500, "Internal server error", <<"users">>, None)
    ELSE
    LET q == Single({r \in users : r.id = Get(payload.userId)}, fault = "users") IN
    IF q.error \/ ~IsSome(q.data)
    THEN AuthDeny(401, "Invalid token user", <<"users">>, None)
    ELSE
    LET userRow == Get(q.data) IN
    IF TokenRevoked(userRow.password_changed_at, tokenIat)
    THEN AuthDeny(401, "Invalid or expired token", <<"users">>, None)
    ELSE
    LET role == LoadRole(userRow, fault) IN
    AuthResult(0, "",
        Some([id |-> userRow.id, email |-> userRow.email, role |-> role.roleObj,
              roleName |-> RoleNameOf(userRow, role.roleObj),
              apiKeyId |-> None, apiKeyName |-> None]),
        Some("jwt"), <<"users">> \o role.reads, None)

\* String.prototype.trim on an x-api-key value.  A key string is the
\* sequence of its "."-separated parts; <<" ">> is a blank string and
\* <<"">> the empty one.
trim(k) == IF k = <<" ">> THEN <<"">> ELSE k

\* Variant of the API-key flow that refuses the keys of a user whose password
\* has changed.
AuthorizerApiKey_Revocable(apiKeyHeader, fault) ==
    LET rawKey == trim(apiKeyHeader)
        k == Single({r \in api_keys : r.hashed_key = Some(hashKey(rawKey))}, FALSE)
        q == Single({r \in users : IsSome(k.data) /\ r.id = Get(k.data).user_id}, FALSE)
    IN
    IF rawKey = <<"">> \/ k.error \/ q.error \/ Get(k.data).revoked
       \/ IsSome(Get(q.data).password_changed_at)
    THEN AuthDeny(401, "Invalid API key", <<>>, None)
    ELSE AuthResult(0, "",
            Some([id |-> Get(q.data).id, email |-> Get(q.data).email,
                  role |-> LoadRole(Get(q.data), fault).roleObj,
                  roleName |-> Get(q.data).role,
                  apiKeyId |-> Some(Get(k.data).id), apiKeyName |-> Some(Get(k.data).name)]),
            Some("api_key"), <<"api_keys", "users">>, None)

\* Lines 100-177: the API-key flow.
AuthorizerApiKey(apiKeyHeader, fault) ==
    LET rawKey == trim(apiKeyHeader) IN
    IF rawKey = <<"">> THEN AuthDeny(401, "Invalid API key", <<>>, None)
    ELSE IF fault = "throw" THEN AuthDeny(500, "Internal server error", <<"api_keys">>, None)
    ELSE
    LET hashed == hashKey(rawKey)
        k == Single({r \in api_keys : r.hashed_key = Some(hashed)}, fault = "api_keys")
    IN
    IF k.error \/ ~IsSome(k.data)
    THEN AuthDeny(401, "Invalid API key", <<"api_keys">>, None)
    ELSE
    LET keyRow == Get(k.data) IN
    IF keyRow.revoked THEN AuthDeny(403, "API key revoked", <<"api_keys">>, None)
    ELSE
    LET touch == Some([id |-> keyRow.id, at |-> now])
        q == Single({r \in users : r.id = keyRow.user_id}, fault = "users")
    IN
    IF q.error \/ ~IsSome(q.data)
    THEN AuthDeny(401, "Invalid API key user", <<"api_keys", "users">>, touch)
    ELSE
    LET userRow == Get(q.data)
        role == LoadRole(userRow, fault)
    IN
    AuthResult(0, "",
        Some([id |-> userRow.id, email |-> userRow.email, role |-> role.roleObj,
              roleName |-> RoleNameOf(userRow, role.roleObj),
              apiKeyId |-> Some(keyRow.id), apiKeyName |-> Some(keyRow.name)]),
        Some("api_key"), <<"api_keys", "users">> \o role.reads, touch)

\* Authorization header: None, or [scheme, token].
startsWithBearer(authHeader) == IsSome(authHeader) /\ Get(authHeader).scheme = "Bearer"

\* Variant of the header test that takes an empty value for a key.
HeaderPresent_AnyValue(apiKeyHeader) == IsSome(apiKeyHeader)

\* x-api-key header: an absent and an empty value are both falsy.
HeaderPresent(apiKeyHeader) == IsSome(apiKeyHeader) /\ Get(apiKeyHeader) # <<"">>

\* Variant of authorizer that looks at the x-api-key header first.
authorizer_KeyFirst(req, fault) ==
    IF HeaderPresent(req.apiKey)
    THEN AuthorizerApiKey(Get(req.apiKey), fault)
    ELSE IF startsWithBearer(req.authorization)
    THEN AuthorizerJwt(Get(req.authorization).token, fault)
    ELSE AuthDeny(401, "Missing Authorization or x-api-key header", <<>>, None)

\* authorizer(req, res, next), src/middleware/authorizer.ts.
authorizer(req, fault) ==
    IF startsWithBearer(req.authorization)
    THEN AuthorizerJwt(Get(req.authorization).token, fault)
    ELSE IF HeaderPresent(req.apiKey)
    THEN AuthorizerApiKey(Get(req.apiKey), fault)
    ELSE AuthDeny(401, "Missing Authorization or x-api-key header", <<>>, None)
\* ------------------------------------------------------------ validation
\* validateBody(schema): z.string().min(n) on the one field that can fail in
\* the model; status 400 on a ZodError.
validateBody(value, minLen) ==
    IF Len(value) >= minLen THEN CallNext ELSE Outcome(400, "errors")

\* ------------------------------------------------------------- responses
NoAuth == AuthDeny(0, "", <<>>, None)
NoCreds == [authorization |-> None, apiKey |-> None]
NoOut == [token |-> None, key |-> None]

\* The record of one handled request: the route, what the client sent, the
\* store condition it ran under, what the authorizer did (NoAuth on a route
\* without it), the response status and error text, and what the response
\* body carried (a signed token, a plaintext API key).
Resp(op, req, body, fault, auth, status, error, out) ==
    [op |-> op, req |-> req, body |-> body, fault |-> fault, auth |-> auth,
     status |-> status, error |-> error, out |-> out]

\* The last_used_at write the authorizer starts runs on in the background.
StartTouch(auth) == IF IsSome(auth.touch) THEN touches \cup {Get(auth.touch)} ELSE touches
\* The model keeps at most MaxPending of these writes in flight.
CanStart(auth) == Cardinality(StartTouch(auth)) <= MaxPending

\* What a client can put in the headers: a token it was given or a forged
\* one, under the Bearer scheme or another; a key it was given, a guess, a
\* blank or an empty value.
TokenInputs == tokens \cup {ForgedToken}
AuthorizationInputs ==
    {None} \cup {Some([scheme |-> "Bearer", token |-> t]) : t \in TokenInputs}
           \cup {Some([scheme |-> "Basic", token |-> ForgedToken])}
KeyInputs ==
    {x.key : x \in keysOut} \cup {<<"guess">>, <<" ">>, <<"">>}
    \cup {<<r.id, "guess">> : r \in api_keys} \cup {<<"k0", "guess">>}
ApiKeyInputs == {None} \cup {Some(k) : k \in KeyInputs}
SentKeys == {None, Some(<<"guess">>)} \cup {Some(x.key) : x \in keysOut}
Requests == [authorization : AuthorizationInputs, apiKey : ApiKeyInputs]

\* The requests the clients of the model send: one credential, none, or a
\* bearer token (or a header of another scheme) beside a key that was issued.
Bearer(t) == Some([scheme |-> "Bearer", token |-> t])
SentRequests ==
    {[authorization |-> Bearer(t), apiKey |-> None] : t \in TokenInputs}
    \cup {[authorization |-> None, apiKey |-> k] : k \in SentKeys}
    \cup {[authorization |-> a, apiKey |-> Some(x.key)] :
             a \in AuthorizationInputs \ {None}, x \in keysOut}
\* The store conditions the requests of the model run under.
SentFaults == {"none", "users"}

TypeOK ==
    /\ now \in Nat
    /\ Cardinality(tokens) <= MaxTokens
    /\ Cardinality(api_keys) <= MaxKeys

\* ------------------------------------------------------------------ Init
\* An empty users table, the roles the migrations create, no API key, no
\* token signed.
RoleRow(name, login, myUser, allUsers, products, images, best) ==
    [name |-> name, can_post_login |-> login, can_get_my_user |-> myUser,
     can_get_users |-> allUsers, can_post_products |-> products,
     can_post_product_images |-> images, can_get_my_bestsellers |-> best]

\* The shop's products, none sold; no webhook request handled; no run of the
\* permission gate recorded.
Products == {"p1", "p2"}
NoSales == [p \in Products |-> 0]
HookIdle == [secret |-> Some("whsec"), last |-> None]
GateIdle == [reqUser |-> None, permission |-> "can_post_login", outcome |-> None]

InitRoutes ==
    /\ now = 10000
    /\ users = {}
    /\ roles = {RoleRow("USER", TRUE, TRUE, FALSE, TRUE, FALSE, FALSE),
                RoleRow("PREMIUM", TRUE, TRUE, FALSE, TRUE, TRUE, TRUE)}
    /\ api_keys = {}
    /\ tokens = {}
    /\ keysOut = {}
    /\ touches = {}
    /\ lastLoginAttempt = <<>>
    /\ loginLog = <<>>
    /\ issuing = <<>>
    /\ verifying = <<>>
    /\ listed = None

Init ==
    /\ InitRoutes
    /\ gateRun = GateIdle
    /\ sales = NoSales
    /\ hook = HookIdle

\* --------------------------------------------------------------- the clock
Tick ==
    /\ \E d \in TickSteps : now + d <= MaxNow /\ now' = now + d
    /\ UNCHANGED <<users, roles, api_keys, tokens, keysOut, touches,
                   lastLoginAttempt, loginLog, rest>>

\* ------------------------------------------------------------ /auth routes
\* POST /auth/signin, shopify.ts 372-433.
SigninResult(email, password, fault) ==
    LET emailLower == toLowerCase(email)
        v == validateBody(password, 8)
        body == [email |-> email, password |-> password]
        R(status, error, out) == Resp("signin", NoCreds, body, fault, NoAuth, status, error, out)
        row == [id |-> Cardinality(users) + 1, email |-> emailLower,
                password |-> BcryptHash(password), role |-> Some("USER"),
                password_changed_at |-> None]
    IN
    IF v.status # 0 THEN [users |-> users, resp |-> R(400, v.error, NoOut)]
    ELSE IF fault \in {"throw", "users"}
    THEN [users |-> users, resp |-> R(500, "Internal server error", NoOut)]
    ELSE IF \E r \in users : r.email = emailLower
    THEN [users |-> users, resp |-> R(409, "Email already in use", NoOut)]
    ELSE IF Single({r \in roles : r.name = "USER"}, fault = "roles").error
    THEN [users |-> users, resp |-> R(500, "Internal server error", NoOut)]
    ELSE [users |-> users \cup {row},
          resp |-> R(201, "", [token |-> Some(signJwt([userId |-> Some(row.id),
                                                      email |-> row.email], now)),
                               key |-> None])]

Signin ==
    \E email \in Emails, password \in {"correct-horse", "short"} :
        LET r == SigninResult(email, password, "none") IN
        /\ IsSome(r.resp.out.token) => Cardinality(tokens) < MaxTokens
        /\ users' = r.users
        /\ tokens' = IF IsSome(r.resp.out.token) THEN tokens \cup {Get(r.resp.out.token)} ELSE tokens
        /\ UNCHANGED <<now, roles, api_keys, keysOut, touches, lastLoginAttempt, loginLog, rest>>

\* const LOGIN_LIMIT_MS = 5_000
LOGIN_LIMIT_MS == 5000

\* Math.ceil(x / 1000)
CeilDiv1000(x) == -((-x) \div 1000)

\* lastLoginAttempt.get(k) ?? 0
MapGetOr0(m, k) == IF k \in DOMAIN m THEN m[k] ELSE 0
\* lastLoginAttempt.set(k, v)
MapSet(m, k, v) == [x \in DOMAIN m \cup {k} |-> IF x = k THEN v ELSE m[x]]

\* What a login handler did: the response, the rate-limiter map afterwards,
\* whether the attempt passed the limiter (admitted), the Retry-After header.
LoginResult(status, error, out, map, admitted, retryAfter) ==
    [status |-> status, error |-> error, out |-> out, map |-> map,
     admitted |-> admitted, retryAfter |-> retryAfter]

\* Lines 452-505 (and 168-223, 314-350): credential check and token issue.
\* checkRole: the revision loads the role row and refuses can_post_login =
\* false.
LoginCredentials(emailLower, password, fault, checkRole, map, admitted) ==
    IF fault = "throw"
    THEN LoginResult(500, "Internal server error", NoOut, map, admitted, None)
    ELSE
    LET q == Single({r \in users : r.email = emailLower}, fault = "users") IN
    IF q.error \/ ~IsSome(q.data)
    THEN LoginResult(401, "Invalid credentials", NoOut, map, admitted, None)
    ELSE
    LET userRow == Get(q.data)
        role == IF checkRole THEN LoadRole(userRow, fault).roleObj ELSE None
    IN
    IF IsSome(role) /\ Get(role).can_post_login = FALSE
    THEN LoginResult(403, "Forbidden: role not allowed to login", NoOut, map, admitted, None)
    ELSE IF ~BcryptCompare(password, userRow.password)
    THEN LoginResult(401, "Invalid credentials", NoOut, map, admitted, None)
    ELSE LoginResult(200, "",
            [token |-> Some(signJwt([userId |-> Some(userRow.id), email |-> userRow.email], now)),
             key |-> None],
            map, admitted, None)

\* POST /auth/login, shopify.ts 309-351: no limiter, no role check.
LoginV1Result(email, password, fault) ==
    LoginCredentials(toLowerCase(email), password, fault, FALSE, lastLoginAttempt, TRUE)

\* POST /auth/login, shopify.ts 160-224: the last attempt is read from
\* global.__lastLoginAttempt and never compared; role check.
LoginV2Result(email, password, fault) ==
    LoginCredentials(toLowerCase(email), password, fault, TRUE, lastLoginAttempt, TRUE)

\* Variant of the limiter that stamps the time of a rejected attempt too.
LoginLimiter_StampAlways(email) ==
    LET emailLower == toLowerCase(email)
        lastAt == MapGetOr0(lastLoginAttempt, emailLower)
        diff == now - lastAt
    IN
    IF diff < LOGIN_LIMIT_MS
    THEN LET retryAfter == CeilDiv1000(LOGIN_LIMIT_MS - diff) IN
         LoginResult(429, "Too many attempts", NoOut,
                     MapSet(lastLoginAttempt, emailLower, now), FALSE, Some(retryAfter))
    ELSE LoginResult(0, "", NoOut, MapSet(lastLoginAttempt, emailLower, now), TRUE, None)

\* Lines 442-450: the limiter.  Status 0: the attempt is admitted and the
\* time stamped.
LoginLimiter(email) ==
    LET emailLower == toLowerCase(email)
        lastAt == MapGetOr0(lastLoginAttempt, emailLower)
        diff == now - lastAt
    IN
    IF diff < LOGIN_LIMIT_MS
    THEN LET retryAfter == CeilDiv1000(LOGIN_LIMIT_MS - diff) IN
         LoginResult(429, "Too many attempts", NoOut, lastLoginAttempt, FALSE, Some(retryAfter))
    ELSE LoginResult(0, "", NoOut, MapSet(lastLoginAttempt, emailLower, now), TRUE, None)

\* Lines 439-506: the handler of the rate-limited revision.
LoginHandler(email, password, fault) ==
    LET lim == LoginLimiter(email) IN
    IF lim.status # 0 THEN lim
    ELSE LoginCredentials(toLowerCase(email), password, fault, TRUE, lim.map, TRUE)

\* POST /auth/login, shopify.ts 438: validateBody, then
\* requirePermission("can_post_login") with no authorizer before it, so that
\* req.user is undefined, then the handler.
LoginV3Result(email, password, fault) ==
    LET gate == requirePermission("can_post_login", None) IN
    IF gate.status # 0
    THEN LoginResult(gate.status, gate.error, NoOut, lastLoginAttempt, FALSE, None)
    ELSE LoginHandler(email, password, fault)

LoginResultOf(variant, email, password, fault) ==
    CASE variant = "login_v1" -> LoginV1Result(email, password, fault)
      [] variant = "login_v2" -> LoginV2Result(email, password, fault)
      [] variant = "login_v3" -> LoginV3Result(email, password, fault)

\* One login request to the given revision of the route.
LoginDo(variant, email, password, fault) ==
    LET r == LoginResultOf(variant, email, password, fault) IN
    /\ IsSome(r.out.token) => Cardinality(tokens) < MaxTokens
    /\ tokens' = IF IsSome(r.out.token) THEN tokens \cup {Get(r.out.token)} ELSE tokens
    /\ lastLoginAttempt' = r.map
    /\ UNCHANGED <<now, users, roles, api_keys, keysOut, touches>>

LoginV1 ==
    \E email \in Emails, password \in Passwords :
        LoginDo("login_v1", email, password, "none") /\ UNCHANGED <<loginLog, rest>>

LoginV2 ==
    \E email \in Emails, password \in Passwords :
        LoginDo("login_v2", email, password, "none") /\ UNCHANGED <<loginLog, rest>>

LoginV3 ==
    \E email \in Emails, password \in Passwords :
        LoginDo("login_v3", email, password, "none") /\ UNCHANGED <<loginLog, rest>>
\* Variant of change-password that stamps password_changed_at before it
\* compares the old password.
ChangePasswordResult_StampFirst(req, oldPassword, newPassword, fault) ==
    LET auth == authorizer(req, fault)
        body == [oldPassword |-> oldPassword, newPassword |-> newPassword]
        R(status, error) == Resp("change_password", req, body, fault, auth, status, error, NoOut)
        v == validateBody(newPassword, 8)
        gate == requirePermission("can_post_login", auth.user)
    IN
    IF auth.status # 0 THEN [users |-> users, resp |-> R(auth.status, auth.error)]
    ELSE IF v.status # 0 THEN [users |-> users, resp |-> R(v.status, v.error)]
    ELSE IF gate.status # 0 THEN [users |-> users, resp |-> R(gate.status, gate.error)]
    ELSE
    LET user == Get(auth.user)
        q == Single({r \in users : r.id = user.id}, fault = "users")
    IN
    IF q.error \/ ~IsSome(q.data)
    THEN [users |-> users, resp |-> R(500, "Internal server error")]
    ELSE
    LET row == Get(q.data) IN
    IF ~BcryptCompare(oldPassword, row.password)
    THEN [users |-> (users \ {row}) \cup {[row EXCEPT !.password_changed_at = Some(now)]},
          resp |-> R(400, "Old password is incorrect")]
    ELSE [users |-> (users \ {row}) \cup
                    {[row EXCEPT !.password = BcryptHash(newPassword),
                                 !.password_changed_at = Some(now)]},
          resp |-> R(200, "")]

\* POST /auth/change-password, shopify.ts 511-561: authorizer, validateBody,
\* requirePermission("can_post_login"), then the handler.
ChangePasswordResult(req, oldPassword, newPassword, fault) ==
    LET auth == authorizer(req, fault)
        body == [oldPassword |-> oldPassword, newPassword |-> newPassword]
        R(status, error) == Resp("change_password", req, body, fault, auth, status, error, NoOut)
        v == validateBody(newPassword, 8)
        gate == requirePermission("can_post_login", auth.user)
    IN
    IF auth.status # 0 THEN [users |-> users, resp |-> R(auth.status, auth.error)]
    ELSE IF v.status # 0 THEN [users |-> users, resp |-> R(v.status, v.error)]
    ELSE IF gate.status # 0 THEN [users |-> users, resp |-> R(gate.status, gate.error)]
    ELSE
    LET user == Get(auth.user)
        q == Single({r \in users : r.id = user.id}, fault = "users")
    IN
    IF q.error \/ ~IsSome(q.data)
    THEN [users |-> users, resp |-> R(500, "Internal server error")]
    ELSE
    LET row == Get(q.data) IN
    IF ~BcryptCompare(oldPassword, row.password)
    THEN [users |-> users, resp |-> R(400, "Old password is incorrect")]
    ELSE [users |-> (users \ {row}) \cup
                    {[row EXCEPT !.password = BcryptHash(newPassword),
                                 !.password_changed_at = Some(now)]},
          resp |-> R(200, "")]

ChangePassword ==
    \E req \in SentRequests, oldPassword \in Passwords,
       newPassword \in {"battery-staple", "short"} :
        LET r == ChangePasswordResult(req, oldPassword, newPassword, "none") IN
        /\ users' = r.users
        /\ CanStart(r.resp.auth)
        /\ touches' = StartTouch(r.resp.auth)
        /\ UNCHANGED <<now, roles, api_keys, tokens, keysOut, lastLoginAttempt, loginLog, rest>>

\* ------------------------------------------------------------- user routes
\* GET /my-user, routes/user.ts 13-17: authorizer,
\* requirePermission("can_get_my_user"), then the handler.
GetMyUserResult(req, fault) ==
    LET auth == authorizer(req, fault)
        R(status, error) == Resp("my_user", req, None, fault, auth, status, error, NoOut)
        gate == requirePermission("can_get_my_user", auth.user)
    IN
    IF auth.status # 0 THEN R(auth.status, auth.error)
    ELSE IF gate.status # 0 THEN R(gate.status, gate.error)
    ELSE R(200, "")

GetMyUser ==
    \E req \in SentRequests, fault \in SentFaults :
        LET r == GetMyUserResult(req, fault) IN
        /\ CanStart(r.auth)
        /\ touches' = StartTouch(r.auth)
        /\ UNCHANGED <<now, users, roles, api_keys, tokens, keysOut, lastLoginAttempt, loginLog, rest>>

\* ---------------------------------------------------------- /api-keys routes
\* Row ids and random secrets: the n-th row inserted gets id KeyId(n), and
\* the n-th crypto.randomBytes(32) draw is Secret(n).
KeyId(n) == "k" \o ToString(n)
Secret(n) == "s" \o ToString(n)

\* POST /api-keys, routes/apiKeys.ts 23-77.
CreateApiKeyResult(req, name, fault) ==
    LET auth == authorizer(req, fault)
        R(status, error, out) ==
            Resp("create_key", req, [name |-> name], fault, auth, status, error, out)
        Keep(status, error) == [api_keys |-> api_keys, resp |-> R(status, error, NoOut)]
        v == validateBody(name, 1)
    IN
    IF auth.status # 0 THEN Keep(auth.status, auth.error)
    ELSE IF v.status # 0 THEN Keep(v.status, v.error)
    ELSE IF ~IsSome(auth.user) THEN Keep(401, "Unauthorized")
    ELSE IF auth.authMethod # Some("jwt")
    THEN Keep(403, "Must be authenticated via user session to manage API keys")
    ELSE
    LET user == Get(auth.user)
        existing == {r \in api_keys : r.user_id = user.id /\ r.name = name}
    IN
    IF fault = "api_keys" THEN Keep(500, "Internal server error")
    ELSE IF existing # {} THEN Keep(409, "API key name already exists")
    ELSE
    LET n == Cardinality(api_keys) + 1
        rawKey == <<Secret(n)>>
        row == [id |-> KeyId(n), user_id |-> user.id, name |-> name,
                hashed_key |-> Some(hashKey(rawKey)), token_hash |-> None,
                revoked |-> FALSE, last_used_at |-> None]
    IN [api_keys |-> api_keys \cup {row},
        resp |-> R(201, "", [token |-> None, key |-> Some(rawKey)])]

CreateApiKey ==
    \E req \in SentRequests, name \in KeyNames \cup {""} :
        LET r == CreateApiKeyResult(req, name, "none") IN
        /\ r.api_keys # api_keys => Cardinality(api_keys) < MaxKeys
        /\ api_keys' = r.api_keys
        /\ keysOut' = IF IsSome(r.resp.out.key)
                      THEN keysOut \cup {[id |-> KeyId(Cardinality(api_keys) + 1),
                                          key |-> Get(r.resp.out.key), via |-> "route"]}
                      ELSE keysOut
        /\ CanStart(r.resp.auth)
        /\ touches' = StartTouch(r.resp.auth)
        /\ UNCHANGED <<now, users, roles, tokens, lastLoginAttempt, loginLog, rest>>

\* DELETE /api-keys/:id, routes/apiKeys.ts 117-159.
DeleteApiKeyResult(req, id, fault) ==
    LET auth == authorizer(req, fault)
        R(status, error) == Resp("delete_key", req, [id |-> id], fault, auth, status, error, NoOut)
        Keep(status, error) == [api_keys |-> api_keys, resp |-> R(status, error)]
    IN
    IF auth.status # 0 THEN Keep(auth.status, auth.error)
    ELSE IF ~IsSome(auth.user) THEN Keep(401, "Unauthorized")
    ELSE IF auth.authMethod # Some("jwt")
    THEN Keep(403, "Must be authenticated via user session to manage API keys")
    ELSE
    LET user == Get(auth.user)
        k == Single({r \in api_keys : r.id = id}, fault = "api_keys")
    IN
    IF k.error \/ ~IsSome(k.data) THEN Keep(404, "API key not found")
    ELSE IF Get(k.data).user_id # user.id THEN Keep(403, "Forbidden")
    ELSE [api_keys |-> {IF r.id = id THEN [r EXCEPT !.revoked = TRUE] ELSE r : r \in api_keys},
          resp |-> R(200, "")]

DeleteApiKey ==
    \E req \in SentRequests, id \in {r.id : r \in api_keys} \cup {"k0"} :
        LET r == DeleteApiKeyResult(req, id, "none") IN
        /\ api_keys' = r.api_keys
        /\ CanStart(r.resp.auth)
        /\ touches' = StartTouch(r.resp.auth)
        /\ UNCHANGED <<now, users, roles, tokens, keysOut, lastLoginAttempt, loginLog, rest>>

\* Variant of the background write that writes the whole row back as it was
\* when the key was accepted, revoked = false included.
ApplyTouch_WholeRow ==
    \E t \in touches :
        /\ api_keys' = {IF r.id = t.id
                        THEN [r EXCEPT !.last_used_at = Some(t.at), !.revoked = FALSE] ELSE r
                        : r \in api_keys}
        /\ touches' = touches \ {t}
        /\ UNCHANGED <<now, users, roles, tokens, keysOut, lastLoginAttempt, loginLog, rest>>

\* The background write of authorizer.ts 118-124 reaches the store:
\* update({ last_used_at }).eq("id", keyRow.id).
ApplyTouch ==
    \E t \in touches :
        /\ api_keys' = {IF r.id = t.id THEN [r EXCEPT !.last_used_at = Some(t.at)] ELSE r
                        : r \in api_keys}
        /\ touches' = touches \ {t}
        /\ UNCHANGED <<now, users, roles, tokens, keysOut, lastLoginAttempt, loginLog, rest>>

\* The background write fails; the error is caught and logged.
FailTouch ==
    \E t \in touches :
        /\ touches' = touches \ {t}
        /\ UNCHANGED <<now, users, roles, api_keys, tokens, keysOut, lastLoginAttempt,
                       loginLog, rest>>

\* --------------------------------------------------------- utils/apiKeys.ts
\* Variant of createApiKeyForUser that returns the token without the row id.
createApiKeyForUser_NoId(userId, name, fault) ==
    LET n == Cardinality(api_keys) + 1
        token == Secret(n)
        row == [id |-> KeyId(n), user_id |-> userId, name |-> name,
                hashed_key |-> None, token_hash |-> Some(HmacHex(token)),
                revoked |-> FALSE, last_used_at |-> None]
    IN
    IF fault \in {"throw", "api_keys"}
    THEN [api_keys |-> api_keys, thrown |-> TRUE, ret |-> None]
    ELSE [api_keys |-> api_keys \cup {row}, thrown |-> FALSE,
          ret |-> Some([id |-> row.id, name |-> name, key |-> <<token>>])]

\* createApiKeyForUser(userId, name), lines 10-39: the new table and the
\* value returned.  An insert error is thrown.
createApiKeyForUser(userId, name, fault) ==
    LET n == Cardinality(api_keys) + 1
        token == Secret(n)
        row == [id |-> KeyId(n), user_id |-> userId, name |-> name,
                hashed_key |-> None, token_hash |-> Some(HmacHex(token)),
                revoked |-> FALSE, last_used_at |-> None]
    IN
    IF fault \in {"throw", "api_keys"}
    THEN [api_keys |-> api_keys, thrown |-> TRUE, ret |-> None]
    ELSE [api_keys |-> api_keys \cup {row}, thrown |-> FALSE,
          ret |-> Some([id |-> row.id, name |-> name, key |-> <<row.id, token>>])]

\* Variant of revokeApiKey that flips the flag.
revokeApiKey_Toggle(userId, apiKeyId, fault) ==
    IF fault \in {"throw", "api_keys"}
    THEN [api_keys |-> api_keys, thrown |-> TRUE, ret |-> FALSE]
    ELSE [api_keys |-> {IF r.id = apiKeyId /\ r.user_id = userId
                        THEN [r EXCEPT !.revoked = ~r.revoked] ELSE r : r \in api_keys},
          thrown |-> FALSE, ret |-> TRUE]

\* revokeApiKey(userId, apiKeyId), lines 59-68: update .. match({id, user_id}).
revokeApiKey(userId, apiKeyId, fault) ==
    IF fault \in {"throw", "api_keys"}
    THEN [api_keys |-> api_keys, thrown |-> TRUE, ret |-> FALSE]
    ELSE [api_keys |-> {IF r.id = apiKeyId /\ r.user_id = userId
                        THEN [r EXCEPT !.revoked = TRUE] ELSE r : r \in api_keys},
          thrown |-> FALSE, ret |-> TRUE]

\* verifyApiKey(plaintextKey), lines 75-109: the owner's id or null, the
\* table after the awaited last_used_at update, the tables read, and whether
\* the call threw (a store call that throws, or Buffer.from on a row without
\* token_hash).
VerifyResult(ret, table, reads, thrown) ==
    [ret |-> ret, api_keys |-> table, reads |-> reads, thrown |-> thrown]

\* Variant of verifyApiKey whose update has no filter on the row id.
verifyApiKey_TouchAll(plaintextKey, fault) ==
    LET q == Single({r \in api_keys : Len(plaintextKey) = 2 /\ r.id = plaintextKey[1]
                                      /\ ~r.revoked /\ IsSome(r.token_hash)
                                      /\ r.token_hash = Some(HmacHex(plaintextKey[2]))},
                    fault \in {"api_keys", "throw"})
    IN IF q.error THEN VerifyResult(None, api_keys, <<>>, FALSE)
       ELSE VerifyResult(Some(Get(q.data).user_id),
                         {[r EXCEPT !.last_used_at = Some(now)] : r \in api_keys},
                         <<"api_keys">>, FALSE)

verifyApiKey(plaintextKey, fault) ==
    LET parts == plaintextKey IN
    IF Len(parts) # 2 THEN VerifyResult(None, api_keys, <<>>, FALSE)
    ELSE
    LET id == parts[1]
        token == parts[2]
    IN
    IF id = "" \/ token = "" THEN VerifyResult(None, api_keys, <<>>, FALSE)
    ELSE IF fault = "throw" THEN VerifyResult(None, api_keys, <<"api_keys">>, TRUE)
    ELSE
    LET q == Single({r \in api_keys : r.id = id}, fault = "api_keys") IN
    IF q.error \/ ~IsSome(q.data) THEN VerifyResult(None, api_keys, <<"api_keys">>, FALSE)
    ELSE
    LET data == Get(q.data) IN
    IF data.revoked THEN VerifyResult(None, api_keys, <<"api_keys">>, FALSE)
    ELSE IF ~IsSome(data.token_hash) THEN VerifyResult(None, api_keys, <<"api_keys">>, TRUE)
    ELSE IF Get(data.token_hash) # HmacHex(token)
    THEN VerifyResult(None, api_keys, <<"api_keys">>, FALSE)
    ELSE VerifyResult(Some(data.user_id),
            IF fault = "touch" THEN api_keys
            ELSE {IF r.id = id THEN [r EXCEPT !.last_used_at = Some(now)] ELSE r
                  : r \in api_keys},
            <<"api_keys">>, FALSE)

\* ------------------------------------------- middleware/authorizerWithApiKey
\* The four permission columns this middleware selects.
RoleColumns4 == {"name", "can_post_login", "can_get_my_user", "can_get_users",
                 "can_post_products"}

WithKeyResult(auth, table) == [auth |-> auth, api_keys |-> table]

\* Variant of the user and role lookup that marks every identity "jwt".
WithKeyResolve_AlwaysJwt(userId, viaApiKey, table, reads, fault) ==
    LET q == Single({r \in users : r.id = userId}, fault \in {"users", "throw"}) IN
    IF q.error
    THEN WithKeyResult(AuthDeny(401, "Invalid token user", reads \o <<"users">>, None), table)
    ELSE WithKeyResult(
             AuthResult(0, "",
                 Some([id |-> Get(q.data).id, email |-> Get(q.data).email,
                       role |-> None, roleName |-> Get(q.data).role,
                       apiKeyId |-> None, apiKeyName |-> None]),
                 Some("jwt"), reads \o <<"users">>, None),
             table)

\* Lines 46-88: user row, role row, req.user.
WithKeyResolve(userId, viaApiKey, table, reads, fault) ==
    IF fault = "throw" /\ ~viaApiKey
    THEN WithKeyResult(AuthDeny(500, "Internal server error", reads \o <<"users">>, None), table)
    ELSE
    LET q == Single({r \in users : r.id = userId}, fault = "users") IN
    IF q.error \/ ~IsSome(q.data)
    THEN WithKeyResult(AuthDeny(401, "Invalid token user", reads \o <<"users">>, None), table)
    ELSE
    LET userRow == Get(q.data)
        role == LoadRole(userRow, fault)
        roleObj == IF IsSome(role.roleObj)
                   THEN Some([c \in RoleColumns4 |-> Get(role.roleObj)[c]])
                   ELSE None
    IN
    WithKeyResult(
        AuthResult(0, "",
            Some([id |-> userRow.id, email |-> userRow.email, role |-> roleObj,
                  roleName |-> userRow.role, apiKeyId |-> None, apiKeyName |-> None]),
            Some(IF viaApiKey THEN "api_key" ELSE "jwt"),
            reads \o <<"users">> \o role.reads, None),
        table)

\* authorizerWithApiKey(req, res, next).  authMethod is a field of req.user
\* here; the result carries it like authorizer does.
authorizerWithApiKey(req, fault) ==
    IF startsWithBearer(req.authorization)
    THEN LET v == verifyJwt(Get(req.authorization).token, now) IN
         IF ~IsSome(v)
         THEN WithKeyResult(AuthDeny(401, "Invalid or expired token", <<>>, None), api_keys)
         ELSE IF ~IsSome(Get(v).userId)
         THEN WithKeyResult(AuthDeny(401, "Invalid authentication", <<>>, None), api_keys)
         ELSE WithKeyResolve(Get(Get(v).userId), FALSE, api_keys, <<>>, fault)
    ELSE IF HeaderPresent(req.apiKey)
    THEN LET k == verifyApiKey(Get(req.apiKey), fault) IN
         IF k.thrown
         THEN WithKeyResult(AuthDeny(500, "Internal server error", k.reads, None), k.api_keys)
         ELSE IF ~IsSome(k.ret)
         THEN WithKeyResult(AuthDeny(401, "Invalid API key", k.reads, None), k.api_keys)
         ELSE WithKeyResolve(Get(k.ret), TRUE, k.api_keys, k.reads, fault)
    ELSE WithKeyResult(
            AuthDeny(401, "Missing Authorization or x-api-key header", <<>>, None), api_keys)

\* ------------------------------------------ the earlier authorizer, part_003
\* authorizer(req, res, next) of the earlier revision: the bearer flow has no
\* revocation check, and the API-key flow awaits its last_used_at write
\* before it fetches the user.
authorizer_part_003(req, fault) ==
    IF startsWithBearer(req.authorization)
    THEN LET v == verifyJwt(Get(req.authorization).token, now) IN
         IF ~IsSome(v)
         THEN WithKeyResult(AuthDeny(401, "Invalid or expired token", <<>>, None), api_keys)
         ELSE IF ~IsSome(Get(v).userId)
         THEN WithKeyResult(AuthDeny(401, "Invalid token payload", <<>>, None), api_keys)
         ELSE IF fault = "throw"
         THEN WithKeyResult(AuthDeny(500, "Internal server error", <<"users">>, None), api_keys)
         ELSE
         LET q == Single({r \in users : r.id = Get(Get(v).userId)}, fault = "users") IN
         IF q.error \/ ~IsSome(q.data)
         THEN WithKeyResult(AuthDeny(401, "Invalid token user", <<"users">>, None), api_keys)
         ELSE
         LET userRow == Get(q.data)
             role == LoadRole(userRow, fault)
         IN WithKeyResult(
                AuthResult(0, "",
                    Some([id |-> userRow.id, email |-> userRow.email, role |-> role.roleObj,
                          roleName |-> userRow.role, apiKeyId |-> None, apiKeyName |-> None]),
                    Some("jwt"), <<"users">> \o role.reads, None),
                api_keys)
    ELSE IF HeaderPresent(req.apiKey)
    THEN LET rawKey == trim(Get(req.apiKey)) IN
         IF rawKey = <<"">>
         THEN WithKeyResult(AuthDeny(401, "Invalid API key", <<>>, None), api_keys)
         ELSE IF fault = "throw"
         THEN WithKeyResult(AuthDeny(500, "Internal server error", <<"api_keys">>, None), api_keys)
         ELSE
         LET k == Single({r \in api_keys : r.hashed_key = Some(hashKey(rawKey))},
                         fault = "api_keys")
         IN
         IF k.error \/ ~IsSome(k.data)
         THEN WithKeyResult(AuthDeny(401, "Invalid API key", <<"api_keys">>, None), api_keys)
         ELSE
         LET keyRow == Get(k.data) IN
         IF keyRow.revoked
         THEN WithKeyResult(AuthDeny(403, "API key revoked", <<"api_keys">>, None), api_keys)
         ELSE
         LET table == IF fault = "touch" THEN api_keys
                      ELSE {IF r.id = keyRow.id THEN [r EXCEPT !.last_used_at = Some(now)]
                            ELSE r : r \in api_keys}
             q == Single({r \in users : r.id = keyRow.user_id}, fault = "users")
         IN
         IF q.error \/ ~IsSome(q.data)
         THEN WithKeyResult(
                  AuthDeny(401, "Invalid API key user", <<"api_keys", "users">>, None), table)
         ELSE
         LET userRow == Get(q.data)
             role == LoadRole(userRow, fault)
         IN WithKeyResult(
                AuthResult(0, "",
                    Some([id |-> userRow.id, email |-> userRow.email, role |-> role.roleObj,
                          roleName |-> userRow.role,
                          apiKeyId |-> Some(keyRow.id), apiKeyName |-> Some(keyRow.name)]),
                    Some("api_key"), <<"api_keys", "users">> \o role.reads, None),
                table)
    ELSE WithKeyResult(
            AuthDeny(401, "Missing Authorization or x-api-key header", <<>>, None), api_keys)

\* A caller issues a key with createApiKeyForUser.
IssueKey ==
    \E u \in users, name \in KeyNames :
        LET r == createApiKeyForUser(u.id, name, "none") IN
        /\ Cardinality(api_keys) < MaxKeys
        /\ api_keys' = r.api_keys
        /\ keysOut' = keysOut \cup {[id |-> Get(r.ret).id, key |-> Get(r.ret).key, via |-> "lib"]}
        /\ UNCHANGED <<now, users, roles, tokens, touches, lastLoginAttempt, loginLog, rest>>

\* A caller revokes a key with revokeApiKey.
RevokeKey ==
    \E u \in users, id \in {r.id : r \in api_keys} \cup {"k0"} :
        /\ api_keys' = revokeApiKey(u.id, id, "none").api_keys
        /\ UNCHANGED <<now, users, roles, tokens, keysOut, touches, lastLoginAttempt, loginLog, rest>>

\* A request through authorizerWithApiKey.
RunAuthorizerWithApiKey ==
    \E req \in SentRequests, fault \in {"none", "touch"} :
        /\ api_keys' = authorizerWithApiKey(req, fault).api_keys
        /\ UNCHANGED <<now, users, roles, tokens, keysOut, touches, lastLoginAttempt, loginLog, rest>>

Next ==
    \/ Tick
    \/ Signin
    \/ LoginV1
    \/ LoginV2
    \/ LoginV3
    \/ ChangePassword
    \/ GetMyUser
    \/ CreateApiKey
    \/ DeleteApiKey
    \/ ApplyTouch
    \/ FailTouch
    \/ IssueKey
    \/ RevokeKey
    \/ RunAuthorizerWithApiKey

Spec == Init /\ [][Next]_vars
\* ------------------------------------------------- the permission gate alone
\* requirePermission applied to one request: any of three permissions, and a
\* req.user that is absent, has no role, or has a role object in which each
\* of the permission columns is true, false or missing.
GatePermissions == {"can_post_login", "can_get_my_user", "can_get_users"}
GateRoles == UNION {[S -> BOOLEAN] : S \in SUBSET GatePermissions}
GateUsers ==
    {None, Some([id |-> 1, role |-> None])}
    \cup {Some([id |-> 1, role |-> Some(r)]) : r \in GateRoles}

InitGate ==
    /\ InitRoutes
    /\ sales = NoSales
    /\ hook = HookIdle
    /\ gateRun \in [reqUser : GateUsers, permission : GatePermissions, outcome : {None}]

\* The middleware runs: it answers or calls next(), and assigns nothing.
GateRun ==
    /\ gateRun.outcome = None
    /\ gateRun' = [gateRun EXCEPT
                      !.outcome = Some(requirePermission(gateRun.permission, gateRun.reqUser))]
    /\ UNCHANGED <<now, users, roles, api_keys, tokens, keysOut, touches,
                   lastLoginAttempt, loginLog, sales, hook, issuing, verifying, listed>>

SpecGate == InitGate /\ [][GateRun]_vars

\* --------------------------------------------- POST /auth/login, step by step
\* The login handlers run up to their first await in one step (the gate and
\* the limiter of shopify.ts 438-450; nothing in 160-166) and finish after
\* the store has answered.  A deployment runs one revision of the route.
MaxLog == 2
MaxLoginNow == 17500
LoginTickSteps == {2500}
LoginRevisions == {"login_v2", "login_v3"}

LoginPrefix(variant, email) ==
    IF variant = "login_v2"
    THEN LoginResult(0, "", NoOut, lastLoginAttempt, TRUE, None)
    ELSE LET perm == requirePermission("can_post_login", None) IN
         IF perm.status # 0
         THEN LoginResult(perm.status, perm.error, NoOut, lastLoginAttempt, FALSE, None)
         ELSE LoginLimiter(email)

LoginTick ==
    /\ \E d \in LoginTickSteps : now + d <= MaxLoginNow /\ now' = now + d
    /\ UNCHANGED <<users, roles, api_keys, tokens, keysOut, touches,
                   lastLoginAttempt, loginLog, rest>>

\* A login request arrives and runs to its first await, or to its response.
LoginBegin ==
    \E variant \in LoginRevisions, email \in Emails, password \in Passwords :
        LET r == LoginPrefix(variant, email) IN
        /\ Len(loginLog) < MaxLog
        /\ \A i \in DOMAIN loginLog : loginLog[i].variant = variant
        /\ loginLog' = Append(loginLog,
               [variant |-> variant, email |-> email, password |-> password, at |-> now,
                status |-> r.status, admitted |-> r.admitted, retryAfter |-> r.retryAfter,
                pending |-> r.status = 0])
        /\ lastLoginAttempt' = r.map
        /\ UNCHANGED <<now, users, roles, api_keys, tokens, keysOut, touches, rest>>

\* The store answers a pending login: credential check and response.
LoginEnd ==
    \E i \in DOMAIN loginLog :
        LET e == loginLog[i]
            r == LoginCredentials(toLowerCase(e.email), e.password, "none", TRUE,
                                  lastLoginAttempt, TRUE)
        IN
        /\ e.pending
        /\ IsSome(r.out.token) => Cardinality(tokens) < MaxTokens
        /\ tokens' = IF IsSome(r.out.token) THEN tokens \cup {Get(r.out.token)} ELSE tokens
        /\ loginLog' = [loginLog EXCEPT ![i].status = r.status, ![i].pending = FALSE]
        /\ UNCHANGED <<now, users, roles, api_keys, keysOut, touches, lastLoginAttempt, rest>>

NextLogin == LoginTick \/ Signin \/ LoginBegin \/ LoginEnd

SpecLogin == Init /\ [][NextLogin]_vars

\* --------------------------------------------------------- routes/webhooks.ts
MaxSales == 3

\* SHOPIFY_WEBHOOK_SECRET, and another secret a sender may sign with.
WebhookSecrets == {"whsec", "other"}

\* Raw request bodies, and JSON.parse of each: None when it throws.
Bodies == {"order1", "order2", "no_items", "not_json"}
LineItem(productId, quantity) == [product_id |-> productId, quantity |-> quantity]
JsonParse(body) ==
    CASE body = "order1" -> Some([line_items |-> <<LineItem(Some("p1"), 2)>>])
      [] body = "order2" -> Some([line_items |-> <<LineItem(Some("p1"), 1), LineItem(Some("p2"), 1),
                                                  LineItem(Some("p2"), 0), LineItem(None, 1)>>])
      [] body = "no_items" -> Some([line_items |-> <<>>])
      [] OTHER -> None

\* Bytes and base64 in small: a byte has four bits (0..15), a character of
\* the alphabet carries three (0..7), Pad is "=" and Blank a white-space
\* character.  A digest is two bytes, so that its encoding is three
\* characters (the last with one unused bit) and one Pad, as the 32 bytes of
\* SHA-256 are 43 characters (the last with two unused bits) and one "=".
Pad == 8
Blank == 9
Base64Chars == 0..9

\* crypto.createHmac("sha256", secret).update(rawBody).digest(): different
\* for different secrets and for different bodies.
HmacSha256(secret, body) ==
    <<IF secret = "whsec" THEN 5 ELSE 10,
      CASE body = "order1" -> 3 [] body = "order2" -> 6
        [] body = "no_items" -> 9 [] OTHER -> 12>>

ByteBits(b) == <<b \div 8, (b \div 4) % 2, (b \div 2) % 2, b % 2>>
CharBits(c) == <<c \div 4, (c \div 2) % 2, c % 2>>

RECURSIVE BytesToBits(_)
BytesToBits(bytes) ==
    IF bytes = <<>> THEN <<>> ELSE ByteBits(Head(bytes)) \o BytesToBits(Tail(bytes))

\* Three bits to a character, the last group filled with zeros.
RECURSIVE BitsToChars(_)
BitsToChars(bits) ==
    IF bits = <<>> THEN <<>>
    ELSE LET g == SubSeq(bits \o <<0, 0>>, 1, 3) IN
         <<4 * g[1] + 2 * g[2] + g[3]>>
         \o BitsToChars(IF Len(bits) <= 3 THEN <<>> ELSE SubSeq(bits, 4, Len(bits)))

\* Four bits to a byte; bits left over are dropped.
RECURSIVE BitsToBytes(_)
BitsToBytes(bits) ==
    IF Len(bits) < 4 THEN <<>>
    ELSE <<8 * bits[1] + 4 * bits[2] + 2 * bits[3] + bits[4]>>
         \o BitsToBytes(SubSeq(bits, 5, Len(bits)))

\* The bits of the characters of a text up to its first Pad, white space
\* skipped.
RECURSIVE DataBits(_)
DataBits(text) ==
    IF text = <<>> \/ Head(text) = Pad THEN <<>>
    ELSE IF Head(text) = Blank THEN DataBits(Tail(text))
    ELSE CharBits(Head(text)) \o DataBits(Tail(text))

\* buffer.toString("base64"): padded to a multiple of four characters.
Base64Encode(bytes) ==
    LET chars == BitsToChars(BytesToBits(bytes))
        pads == (4 - (Len(chars) % 4)) % 4
    IN chars \o [i \in 1..pads |-> Pad]

\* Buffer.from(text, "base64"): no error on any text, white space ignored,
\* unused trailing bits not looked at.
Base64Decode(text) == BitsToBytes(DataBits(text))

\* An empty header value.
EmptyHeader == <<>>

\* The texts that differ from text in exactly one character.
SingleByteChanges(text) ==
    {[text EXCEPT ![i] = c] : i \in DOMAIN text, c \in Base64Chars} \ {text}

\* What senders put in X-Shopify-Hmac-Sha256: nothing, an empty value, the
\* encoded keyed hash of a body under a secret, or such a value with one
\* character changed.
SignedHeaders ==
    {Base64Encode(HmacSha256(k, b)) : k \in WebhookSecrets, b \in {"order1", "not_json"}}
HeaderInputs ==
    {None, Some(EmptyHeader)}
    \cup {Some(h) : h \in SignedHeaders}
    \cup {Some(c) : c \in UNION {SingleByteChanges(Base64Encode(HmacSha256("whsec", b)))
                                 : b \in {"order1", "not_json"}}}
WebhookRequests ==
    [contentType : {"application/json", "text/plain"}, body : Bodies,
     hmacHeader : HeaderInputs]
WebhookFaults == {"none", "rpc"}

\* The requests the senders of the model make: every content type and body,
\* with no header, an empty one, a signed one, or the signed header of
\* order1 with its Pad replaced by white space, its unused bit set, one of
\* its used bits changed, or a character in place of its Pad.
SentHeaders ==
    LET h == Base64Encode(HmacSha256("whsec", "order1")) IN
    {None, Some(EmptyHeader)} \cup {Some(x) : x \in SignedHeaders}
    \cup {Some([h EXCEPT ![4] = Blank]), Some([h EXCEPT ![3] = h[3] + 1]),
          Some([h EXCEPT ![1] = 7 - h[1]]), Some([h EXCEPT ![4] = 0])}
SentWebhookRequests ==
    [contentType : {"application/json", "text/plain"}, body : Bodies,
     hmacHeader : SentHeaders]

\* express.raw({ type: "application/json" }): req.body is a Buffer only for
\* that content type.
IsBuffer(req) == req.contentType = "application/json"

\* Variant of the comparison without the length test: the bytes both have.
SignatureMatches_NoLengthTest(a, b) == \A i \in DOMAIN a \cap DOMAIN b : a[i] = b[i]

\* Variant of the comparison that looks at the lengths only.
SignatureMatches_LengthOnly(a, b) == Len(a) = Len(b)

\* Line 39: a.length === b.length && crypto.timingSafeEqual(a, b).
SignatureMatches(a, b) == Len(a) = Len(b) /\ a = b

\* Lines 57-64: quantity per product over the valid line items.
RECURSIVE CountFor(_, _)
CountFor(lineItems, p) ==
    IF lineItems = <<>> THEN 0
    ELSE LET li == Head(lineItems)
             n == IF li.product_id = Some(p) /\ li.quantity > 0 THEN li.quantity ELSE 0
         IN n + CountFor(Tail(lineItems), p)

\* rpc increment_product_sales({ items }): sales_count += qty per item.
increment_product_sales(items) == [p \in Products |-> sales[p] + items[p]]

WebhookResult(status, text, trace, table) ==
    [status |-> status, text |-> text, trace |-> trace, sales |-> table]

\* shopifySalesWebhookHandler(req, res).  trace lists, in order, the
\* signature comparison, JSON.parse and the rpc call the handler made.
shopifySalesWebhookHandler(req, fault) ==
    IF ~IsSome(hook.secret)
    THEN WebhookResult(500, "Webhook secret not configured", <<>>, sales)
    ELSE IF ~IsBuffer(req) THEN WebhookResult(400, "Invalid body", <<>>, sales)
    ELSE IF ~IsSome(req.hmacHeader) \/ req.hmacHeader = Some(EmptyHeader)
    THEN WebhookResult(401, "Missing signature", <<>>, sales)
    ELSE
    LET hmac == HmacSha256(Get(hook.secret), req.body)
        expected == Base64Encode(hmac)
        a == Base64Decode(expected)
        b == Base64Decode(Get(req.hmacHeader))
    IN
    IF ~SignatureMatches(a, b)
    THEN WebhookResult(401, "Invalid signature", <<"compare">>, sales)
    ELSE
    LET payload == JsonParse(req.body) IN
    IF ~IsSome(payload)
    THEN WebhookResult(400, "Invalid JSON", <<"compare", "parse">>, sales)
    ELSE
    LET lineItems == Get(payload).line_items
        counts == [p \in Products |-> CountFor(lineItems, p)]
    IN
    IF Len(lineItems) = 0
    THEN WebhookResult(200, "No line items", <<"compare", "parse">>, sales)
    ELSE IF \A p \in Products : counts[p] = 0
    THEN WebhookResult(200, "No valid product ids", <<"compare", "parse">>, sales)
    ELSE IF fault = "rpc"
    THEN WebhookResult(500, "DB update error", <<"compare", "parse", "rpc">>, sales)
    ELSE WebhookResult(200, "OK", <<"compare", "parse", "rpc">>,
                       increment_product_sales(counts))

InitWebhook ==
    /\ InitRoutes
    /\ gateRun = GateIdle
    /\ sales = NoSales
    /\ hook \in [secret : {None, Some("whsec")}, last : {None}]

\* POST /webhooks/shopify-sales.
Webhook ==
    \E req \in SentWebhookRequests, fault \in WebhookFaults :
        LET r == shopifySalesWebhookHandler(req, fault) IN
        /\ \A p \in Products : r.sales[p] <= MaxSales
        /\ sales' = r.sales
        /\ hook' = [hook EXCEPT !.last = Some([req |-> req, fault |-> fault,
                                               status |-> r.status, text |-> r.text,
                                               trace |-> r.trace])]
        /\ UNCHANGED <<now, users, roles, api_keys, tokens, keysOut, touches,
                       lastLoginAttempt, loginLog, gateRun, issuing, verifying, listed>>

SpecWebhook == InitWebhook /\ [][Webhook]_vars

\* ------------------------------------------- POST /api-keys, step by step
\* The route awaits the store twice: the select of lines 37-42 and the insert
\* of lines 56-64.  Requests of other clients are handled between the two.
MaxIssued == 2
MaxIssuing == 2

RemoveAt(seq, i) == SubSeq(seq, 1, i - 1) \o SubSeq(seq, i + 1, Len(seq))

\* Lines 23-50: authorizer, validateBody, the session test and the name
\* check, on the table as it is now.  A request that passes goes on to the
\* insert; the others are answered at once and change nothing.
PostApiKeysBegin ==
    \E t \in tokens, name \in KeyNames :
        LET req == [authorization |-> Some([scheme |-> "Bearer", token |-> t]), apiKey |-> None]
            d == CreateApiKeyResult(req, name, "none")
        IN /\ d.resp.status = 201
           /\ Len(issuing) < MaxIssuing
           /\ issuing' = Append(issuing, [user_id |-> Get(d.resp.auth.user).id, name |-> name])
           /\ UNCHANGED <<now, users, roles, api_keys, tokens, keysOut, touches,
                          lastLoginAttempt, loginLog, gateRun, sales, hook, verifying, listed>>

\* Lines 52-69: the raw key, the insert, the 201 response.
PostApiKeysEnd ==
    \E i \in DOMAIN issuing :
        LET n == Cardinality(api_keys) + 1
            rawKey == <<Secret(n)>>
            row == [id |-> KeyId(n), user_id |-> issuing[i].user_id, name |-> issuing[i].name,
                    hashed_key |-> Some(hashKey(rawKey)), token_hash |-> None,
                    revoked |-> FALSE, last_used_at |-> None]
        IN /\ Cardinality(api_keys) < MaxIssued
           /\ api_keys' = api_keys \cup {row}
           /\ keysOut' = keysOut \cup {[id |-> row.id, key |-> rawKey, via |-> "route"]}
           /\ issuing' = RemoveAt(issuing, i)
           /\ UNCHANGED <<now, users, roles, tokens, touches, lastLoginAttempt, loginLog,
                          gateRun, sales, hook, verifying, listed>>

\* A caller issues a key with createApiKeyForUser: one store call.
CreateApiKeyForUser ==
    \E u \in users, name \in KeyNames :
        LET r == createApiKeyForUser(u.id, name, "none") IN
        /\ Cardinality(api_keys) < MaxIssued
        /\ api_keys' = r.api_keys
        /\ keysOut' = keysOut \cup {[id |-> Get(r.ret).id, key |-> Get(r.ret).key, via |-> "lib"]}
        /\ UNCHANGED <<now, users, roles, tokens, touches, lastLoginAttempt, loginLog, rest>>

NextIssue ==
    \/ Signin
    \/ PostApiKeysBegin
    \/ PostApiKeysEnd
    \/ CreateApiKeyForUser
    \/ DeleteApiKey

SpecIssue == Init /\ [][NextIssue]_vars

\* --------------------------------------------- verifyApiKey, step by step
\* verifyApiKey awaits its last_used_at update (lines 102-106) before it
\* returns the owner's id; authorizerWithApiKey awaits verifyApiKey.  The
\* request is answered after the store has answered the update.
MaxVerifying == 1

\* Lines 75-100: the key passes the checks and the update is sent.
VerifyBegin ==
    \E k \in SentKeys \ {None} :
        LET req == [authorization |-> None, apiKey |-> k] IN
        /\ IsSome(verifyApiKey(Get(k), "none").ret)
        /\ Len(verifying) < MaxVerifying
        /\ verifying' = Append(verifying, req)
        /\ UNCHANGED <<now, users, roles, api_keys, tokens, keysOut, touches,
                       lastLoginAttempt, loginLog, gateRun, sales, hook, issuing, listed>>

\* The update of the row with the key's id is done, or has failed (an error
\* the code does not look at): verifyApiKey returns, the middleware loads
\* the user and the role and answers.
VerifyEnd ==
    \E i \in DOMAIN verifying, fault \in {"none", "touch"} :
        /\ api_keys' = IF fault = "touch" THEN api_keys
                        ELSE {IF r.id = Get(verifying[i].apiKey)[1]
                              THEN [r EXCEPT !.last_used_at = Some(now)] ELSE r : r \in api_keys}
        /\ verifying' = RemoveAt(verifying, i)
        /\ UNCHANGED <<now, users, roles, tokens, keysOut, touches,
                       lastLoginAttempt, loginLog, gateRun, sales, hook, issuing, listed>>

NextVerify ==
    \/ Tick
    \/ Signin
    \/ CreateApiKey
    \/ IssueKey
    \/ GetMyUser
    \/ ApplyTouch
    \/ FailTouch
    \/ VerifyBegin
    \/ VerifyEnd
    \/ RevokeKey

SpecVerify == Init /\ [][NextVerify]_vars

\* ------------------------------------------------ roles edited in the store
\* No route writes the roles table or users.role: both are edited in the
\* store's SQL editor, as the migration is.  POST /auth/signin of the earlier
\* revision inserts a user without a role.
RoleNames == {"USER", "PREMIUM", "ADMIN"}

\* POST /auth/signin, shopify.ts 241-302: no role column in the insert.
SigninV1Result(email, password, fault) ==
    LET emailLower == toLowerCase(email)
        v == validateBody(password, 8)
        body == [email |-> email, password |-> password]
        R(status, error, out) == Resp("signin_v1", NoCreds, body, fault, NoAuth, status, error, out)
        row == [id |-> Cardinality(users) + 1, email |-> emailLower,
                password |-> BcryptHash(password), role |-> None,
                password_changed_at |-> None]
    IN
    IF v.status # 0 THEN [users |-> users, resp |-> R(400, v.error, NoOut)]
    ELSE IF fault \in {"throw", "users"}
    THEN [users |-> users, resp |-> R(500, "Internal server error", NoOut)]
    ELSE IF \E r \in users : r.email = emailLower
    THEN [users |-> users, resp |-> R(409, "Email already in use", NoOut)]
    ELSE [users |-> users \cup {row},
          resp |-> R(201, "", [token |-> Some(signJwt([userId |-> Some(row.id),
                                                      email |-> row.email], now)),
                               key |-> None])]

SigninV1 ==
    \E email \in Emails :
        LET r == SigninV1Result(email, "correct-horse", "none") IN
        /\ IsSome(r.resp.out.token) => Cardinality(tokens) < MaxTokens
        /\ users' = r.users
        /\ tokens' = IF IsSome(r.resp.out.token) THEN tokens \cup {Get(r.resp.out.token)} ELSE tokens
        /\ UNCHANGED <<now, roles, api_keys, keysOut, touches, lastLoginAttempt, loginLog, rest>>

\* UPDATE roles SET <permission> = <value> WHERE name = <role>.
UpdateRole ==
    \E r \in roles, p \in {"can_get_my_user"}, b \in BOOLEAN :
        /\ r[p] # b
        /\ roles' = (roles \ {r}) \cup {[r EXCEPT ![p] = b]}
        /\ UNCHANGED <<now, users, api_keys, tokens, keysOut, touches, lastLoginAttempt,
                       loginLog, rest>>

\* UPDATE users SET role = <name> WHERE id = <user>; the name need not be
\* that of a row of roles.
SetUserRole ==
    \E u \in users, n \in RoleNames :
        /\ u.role # Some(n)
        /\ users' = (users \ {u}) \cup {[u EXCEPT !.role = Some(n)]}
        /\ UNCHANGED <<now, roles, api_keys, tokens, keysOut, touches, lastLoginAttempt,
                       loginLog, rest>>

NextRoles ==
    \/ Signin
    \/ SigninV1
    \/ UpdateRole
    \/ SetUserRole
    \/ CreateApiKey
    \/ GetMyUser

SpecRoles == Init /\ [][NextRoles]_vars

\* ================================================================ properties
\* The users row a token names, and the ways a client can present a token
\* or a key.
SubjectOf(t) == {u \in users : Some(u.id) = t.userId}
WithBearer(t, k) == [authorization |-> Bearer(t), apiKey |-> k]
WithKey(a, k) == [authorization |-> a, apiKey |-> Some(k)]
NonBearer == {a \in AuthorizationInputs : ~startsWithBearer(a)}
\* Store conditions under which the users table and the api_keys table answer.
UsersAnswer == Faults \ {"users", "throw"}
StoreAnswers == {"none", "touch"}
\* The tokens signed so far, and the same tokens had they been signed
\* without an iat claim.
NoIat(t) == [t EXCEPT !.iat = None]
TokenCases == tokens \cup {NoIat(t) : t \in tokens}

\* ---- C1
\* C1: on the bearer path, for a validly signed, unexpired token whose
\* subject exists, the request is rejected with 401 when the user has a
\* password_changed_at T and the token has an iat below T in whole seconds;
\* in every other case (iat >= T, no password_changed_at, no iat) the
\* identity of the subject is attached.
C1_RevocationCheck ==
    \A t \in TokenCases, k \in ApiKeyInputs, fault \in UsersAnswer :
        \A u \in SubjectOf(t) :
            LET r == authorizer(WithBearer(t, k), fault) IN
            IsSome(verifyJwt(t, now)) =>
                IF /\ IsSome(u.password_changed_at)
                   /\ IsSome(t.iat)
                   /\ Get(t.iat) < Get(u.password_changed_at) \div 1000
                THEN r.status = 401 /\ r.user = None
                ELSE r.status = 0 /\ IsSome(r.user) /\ Get(r.user).id = u.id

\* A user changed the password; one token of theirs is older than the change
\* and rejected, another is not older and accepted.
C1_Witness ==
    \E t1 \in tokens, t2 \in tokens :
        \E u \in SubjectOf(t1) \cap SubjectOf(t2) :
            /\ IsSome(u.password_changed_at)
            /\ Get(t1.iat) < Get(u.password_changed_at) \div 1000
            /\ authorizer(WithBearer(t1, None), "none").status = 401
            /\ Get(t2.iat) >= Get(u.password_changed_at) \div 1000
            /\ authorizer(WithBearer(t2, None), "none").status = 0

\* ---- C2
\* Token t names a user whose latest password change came after the instant
\* t was signed.
IssuedBeforeChange(t) ==
    \E u \in SubjectOf(t) :
        IsSome(u.password_changed_at) /\ t.ms < Get(u.password_changed_at)

\* Token t names a user whose latest password change falls in a later whole
\* second than t's iat.
IssuedSecondBeforeChange(t) ==
    \E u \in SubjectOf(t) :
        IsSome(u.password_changed_at)
        /\ Get(t.iat) < Get(u.password_changed_at) \div 1000

\* Every request that presents t as a bearer token is refused, whatever else
\* it carries and whatever the store does.
Rejected(t) ==
    \A k \in ApiKeyInputs, fault \in Faults :
        LET r == authorizer(WithBearer(t, k), fault) IN
        r.status # 0 /\ r.user = None

C3_IssuedAfterChangeAccepted ==
    \A t \in tokens, k \in ApiKeyInputs, fault \in UsersAnswer :
        \A u \in SubjectOf(t) :
            (IsSome(u.password_changed_at) /\ t.ms >= Get(u.password_changed_at)) =>
                /\ ~TokenRevoked(u.password_changed_at, t.iat)
                /\ IsSome(verifyJwt(t, now)) =>
                       authorizer(WithBearer(t, k), fault).status = 0

\* A login half a second after the password change, in the same second.
C3_Witness ==
    \E t \in tokens :
        \E u \in SubjectOf(t) :
            /\ IsSome(u.password_changed_at)
            /\ t.ms > Get(u.password_changed_at)
            /\ Get(t.iat) = Get(u.password_changed_at) \div 1000
            /\ authorizer(WithBearer(t, None), "none").status = 0

\* ---- C4
RevokedRows == {r \in api_keys : r.revoked}

\* Presenting the plaintext key fails in authorizer, in authorizerWithApiKey
\* and in verifyApiKey, whatever the store does.
PresentedKeyFails(key) ==
    \A a \in NonBearer, fault \in Faults :
        LET r == authorizer(WithKey(a, key), fault)
            w == authorizerWithApiKey(WithKey(a, key), fault).auth
        IN /\ r.status # 0 /\ r.user = None
           /\ w.status # 0 /\ w.user = None
           /\ verifyApiKey(key, fault).ret = None

\* Revoking the revoked row r again, by revokeApiKey or by its owner through
\* DELETE /api-keys/:id, succeeds and leaves the table as it is.
RevokeAgainKeepsRecord(r) ==
    /\ revokeApiKey(r.user_id, r.id, "none")
           = [api_keys |-> api_keys, thrown |-> FALSE, ret |-> TRUE]
    /\ \A t \in tokens :
           LET req == WithBearer(t, None)
               d == DeleteApiKeyResult(req, r.id, "none")
           IN (authorizer(req, "none").status = 0 /\ t.userId = Some(r.user_id)) =>
                  d.resp.status = 200 /\ d.api_keys = api_keys

C5_WitnessLib ==
    \E x \in keysOut, r \in api_keys :
        /\ x.via = "lib" /\ r.id = x.id /\ ~r.revoked
        /\ IsSome(verifyApiKey(x.key, "none").ret)

\* ---- C6
\* C6: a request with a Bearer Authorization header and an x-api-key header
\* gets the outcome of the bearer token alone: api_keys is not read, no
\* last_used_at write is started or made, authMethod is "jwt" on success,
\* and a bearer token that fails alone fails beside any key.
C6_BearerWins ==
    \A t \in TokenInputs, k \in ApiKeyInputs, fault \in Faults :
        LET req == WithBearer(t, k)
            alone == WithBearer(t, None)
            r == authorizer(req, fault)
            w == authorizerWithApiKey(req, fault)
        IN /\ r = authorizer(alone, fault)
           /\ r.touch = None
           /\ \A i \in DOMAIN r.reads : r.reads[i] # "api_keys"
           /\ r.status = 0 => r.authMethod = Some("jwt")
           /\ r.status \in {0, 401, 500}
           /\ w = authorizerWithApiKey(alone, fault)
           /\ w.api_keys = api_keys
           /\ \A i \in DOMAIN w.auth.reads : w.auth.reads[i] # "api_keys"
           /\ w.auth.status = 0 => w.auth.authMethod = Some("jwt")

\* A revoked bearer token beside a key that is valid alone: 401.
C6_Witness ==
    \E t \in tokens, x \in keysOut :
        /\ authorizer(WithKey(None, x.key), "none").status = 0
        /\ IssuedSecondBeforeChange(t)
        /\ authorizer(WithBearer(t, Some(x.key)), "none").status = 401

\* ---- C7
\* The outcome the gate owes a request: 401 without an identity, else 403
\* without a role, else next() when the role has the permission set to true,
\* else 403.
GateOwes(permission, reqUser) ==
    IF ~IsSome(reqUser) THEN 401
    ELSE IF ~IsSome(Get(reqUser).role) THEN 403
    ELSE IF permission \in DOMAIN Get(Get(reqUser).role)
            /\ Get(Get(reqUser).role)[permission]
    THEN 0
    ELSE 403

\* C7: requirePermission(p) answers 401 when req.user is absent, 403 when
\* the role is null, 403 when the role's p is false or missing, calls next()
\* only when the role's p is true, and assigns neither req.user nor anything
\* in the store.
C7_Gate ==
    /\ [](IsSome(gateRun.outcome) =>
              Get(gateRun.outcome).status = GateOwes(gateRun.permission, gateRun.reqUser))
    /\ [][/\ gateRun'.reqUser = gateRun.reqUser
          /\ gateRun'.permission = gateRun.permission
          /\ UNCHANGED <<users, roles, api_keys, sales>>]_vars

\* The gate has refused a user whose role lacks the permission column asked
\* for while another column is true.
C7_Witness ==
    /\ IsSome(gateRun.outcome) /\ IsSome(gateRun.reqUser)
    /\ IsSome(Get(gateRun.reqUser).role)
    /\ gateRun.permission \notin DOMAIN Get(Get(gateRun.reqUser).role)
    /\ \E p \in DOMAIN Get(Get(gateRun.reqUser).role) : Get(Get(gateRun.reqUser).role)[p]
    /\ Get(gateRun.outcome).status = 403

\* ---- C8
\* The admitted attempts for the e-mail of entry j that came before it.
AdmittedBefore(j) ==
    {i \in 1..(j - 1) :
        /\ toLowerCase(loginLog[i].email) = toLowerCase(loginLog[j].email)
        /\ loginLog[i].admitted}
LastAdmittedBefore(j) ==
    CHOOSE i \in AdmittedBefore(j) : \A k \in AdmittedBefore(j) : k <= i

\* C8 as stated: an attempt less than 5000 ms after the last admitted attempt
\* for its normalized e-mail gets 429 with Retry-After
\* ceil((5000 - elapsed) / 1000), between 1 and 5; every other attempt is
\* admitted.
C8_LimiterDecides ==
    \A j \in DOMAIN loginLog :
        LET e == loginLog[j] IN
        IF AdmittedBefore(j) # {}
           /\ e.at - loginLog[LastAdmittedBefore(j)].at < LOGIN_LIMIT_MS
        THEN LET elapsed == e.at - loginLog[LastAdmittedBefore(j)].at IN
             /\ e.status = 429 /\ ~e.admitted
             /\ e.retryAfter = Some(CeilDiv1000(LOGIN_LIMIT_MS - elapsed))
             /\ Get(e.retryAfter) \in 1..5
        ELSE e.admitted

\* ---- C9
\* C9 as stated: of two attempts for one normalized e-mail handled at the
\* same instant, with no admitted attempt in the 5000 ms before them, the
\* first to run is admitted and the second gets 429.
C9_OneOfTwoAdmitted ==
    \A i \in DOMAIN loginLog, j \in DOMAIN loginLog :
        (/\ i < j
         /\ toLowerCase(loginLog[i].email) = toLowerCase(loginLog[j].email)
         /\ loginLog[i].at = loginLog[j].at
         /\ \A k \in AdmittedBefore(i) : loginLog[i].at - loginLog[k].at >= LOGIN_LIMIT_MS)
        => /\ loginLog[i].admitted
           /\ ~loginLog[j].admitted /\ loginLog[j].status = 429

\* ---- C10
\* The positions of an event in a handler trace.
Pos(trace, e) == {i \in DOMAIN trace : trace[i] = e}

\* The request is signed: its header decodes to the keyed hash of its raw
\* body under the configured secret.
Signed(req) ==
    /\ IsSome(hook.secret) /\ IsBuffer(req) /\ IsSome(req.hmacHeader)
    /\ Base64Decode(Get(req.hmacHeader)) = HmacSha256(Get(hook.secret), req.body)

\* C10: the handler calls increment_product_sales only for signed requests;
\* it parses the body only after the comparison has succeeded, calls the rpc
\* only after parsing, and sales_count changes only in a step whose request
\* was signed and reached the rpc.
C10_VerifiedBeforeUse ==
    /\ [](\A req \in WebhookRequests, fault \in WebhookFaults :
              LET r == shopifySalesWebhookHandler(req, fault) IN
              /\ Pos(r.trace, "rpc") # {} => Signed(req)
              /\ Pos(r.trace, "parse") # {} => Signed(req)
              /\ \A i \in Pos(r.trace, "parse") : \E j \in Pos(r.trace, "compare") : j < i
              /\ \A i \in Pos(r.trace, "rpc") : \E j \in Pos(r.trace, "parse") : j < i
              /\ r.sales # sales => Pos(r.trace, "rpc") # {})
    /\ [][sales' # sales =>
              /\ IsSome(hook'.last)
              /\ Pos(Get(hook'.last).trace, "rpc") # {}
              /\ Signed(Get(hook'.last).req)]_vars

\* The last request handled is a signed order whose header ends in white
\* space instead of the Pad, and sales_count has moved.
C10_Witness ==
    /\ IsSome(hook.last)
    /\ Get(hook.last).status = 200 /\ Get(hook.last).text = "OK"
    /\ Get(Get(hook.last).req.hmacHeader)[4] = Blank
    /\ sales # NoSales

\* The requests that reach the comparison: the secret is configured and the
\* body arrived as raw bytes.
Verifiable(req) == IsSome(hook.secret) /\ IsBuffer(req)
SignatureOf(body) == Base64Encode(HmacSha256(Get(hook.secret), body))
SignatureMismatch(r) == r.status = 401 /\ r.text = "Invalid signature"
MissingSignature(r) == r.status = 401 /\ r.text = "Missing signature"
PassedVerification(r) == Len(r.trace) > 0 /\ ~SignatureMismatch(r)

\* C11: a body with the signature computed for it under the configured secret
\* passes verification; the signature of another body, or the signature with
\* any one character changed, fails as a signature mismatch; an empty or
\* absent header fails as a missing signature.
C11_SingleByteChangeFails ==
    \A req \in WebhookRequests, fault \in WebhookFaults :
        LET r == shopifySalesWebhookHandler(req, fault) IN
        Verifiable(req) =>
            /\ req.hmacHeader = Some(SignatureOf(req.body)) => PassedVerification(r)
            /\ (\E b \in Bodies \ {req.body} : req.hmacHeader = Some(SignatureOf(b)))
                   => SignatureMismatch(r)
            /\ (IsSome(req.hmacHeader)
                /\ Get(req.hmacHeader) \in SingleByteChanges(SignatureOf(req.body)))
                   => SignatureMismatch(r)
            /\ (req.hmacHeader = None \/ req.hmacHeader = Some(EmptyHeader))
                   => MissingSignature(r)

\* The part of C11 that the handler has: the decoded header decides.
C11_DecodedBytesDecide ==
    \A req \in WebhookRequests, fault \in WebhookFaults :
        LET r == shopifySalesWebhookHandler(req, fault) IN
        Verifiable(req) =>
            /\ (req.hmacHeader = None \/ req.hmacHeader = Some(EmptyHeader))
                   <=> MissingSignature(r)
            /\ (IsSome(req.hmacHeader) /\ req.hmacHeader # Some(EmptyHeader)) =>
                   (PassedVerification(r)
                    <=> Base64Decode(Get(req.hmacHeader))
                        = HmacSha256(Get(hook.secret), req.body))

\* A signature with its unused trailing bit changed was accepted and counted.
C11_Witness ==
    /\ IsSome(hook.last)
    /\ LET l == Get(hook.last) IN
       /\ l.status = 200 /\ l.text = "OK"
       /\ IsSome(l.req.hmacHeader)
       /\ Get(l.req.hmacHeader) \in SingleByteChanges(SignatureOf(l.req.body))
       /\ Get(l.req.hmacHeader)[4] = Pad

\* The header is there, and what it decodes to.
HasSignature(req) == IsSome(req.hmacHeader) /\ req.hmacHeader # Some(EmptyHeader)
ValidSignature(req) ==
    /\ HasSignature(req)
    /\ Base64Decode(Get(req.hmacHeader)) = HmacSha256(Get(hook.secret), req.body)
ToProcess(req) ==
    /\ IsSome(JsonParse(req.body))
    /\ \E p \in Products : CountFor(Get(JsonParse(req.body)).line_items, p) > 0

\* The status codes of the claim, for the requests of the set In.
StatusContract(In) ==
    \A req \in In, fault \in WebhookFaults :
        LET r == shopifySalesWebhookHandler(req, fault) IN
        /\ ~HasSignature(req) => r.status = 401
        /\ (HasSignature(req) /\ ~ValidSignature(req)) => r.status = 401
        /\ (ValidSignature(req) /\ ~IsSome(JsonParse(req.body))) => r.status = 400
        /\ (ValidSignature(req) /\ IsSome(JsonParse(req.body))
            /\ (ToProcess(req) => fault = "none")) => r.status = 200

\* C12 as stated: 401 without a signature header, 401 when the signature does
\* not match (whatever the length it decodes to), 400 when it matches and
\* the body is not JSON, 200 when it matches and the payload was processed,
\* for every request.
C12_StatusContractAlways == StatusContract(WebhookRequests)

\* C12 for the requests that reach the signature check: the secret is
\* configured and the body arrived as raw application/json bytes.  Before
\* that the handler answers 500 (no secret) or 400 (no raw body), whatever
\* the header.
C12_StatusContract ==
    /\ StatusContract({req \in WebhookRequests : Verifiable(req)})
    /\ \A req \in WebhookRequests, fault \in WebhookFaults :
           LET r == shopifySalesWebhookHandler(req, fault) IN
           /\ ~IsSome(hook.secret) => r.status = 500
           /\ (IsSome(hook.secret) /\ ~IsBuffer(req)) => r.status = 400

\* A header that decodes to three bytes instead of two was answered 401.
C12_Witness ==
    /\ IsSome(hook.last)
    /\ LET l == Get(hook.last) IN
       /\ Verifiable(l.req) /\ HasSignature(l.req)
       /\ Len(Base64Decode(Get(l.req.hmacHeader))) = 3
       /\ l.status = 401 /\ l.text = "Invalid signature"

\* ---- C13
\* The issued key x, presented alone, authenticates as the owner of its row:
\* a key of POST /api-keys through authorizer, a key of createApiKeyForUser
\* through authorizerWithApiKey.
KeyAuthenticates(x) ==
    \E r \in api_keys :
        /\ r.id = x.id
        /\ LET z == IF x.via = "route"
                    THEN authorizer(WithKey(None, x.key), "none")
                    ELSE authorizerWithApiKey(WithKey(None, x.key), "none").auth
           IN /\ z.status = 0 /\ z.authMethod = Some("api_key")
              /\ IsSome(z.user) /\ Get(z.user).id = r.user_id

RevokedKey(x) == \E r \in api_keys : r.id = x.id /\ r.revoked
OwnerChangedPassword(x) ==
    \E r \in api_keys, u \in users :
        r.id = x.id /\ u.id = r.user_id /\ IsSome(u.password_changed_at)

\* The row of x is not revoked and its owner is in the users table.
KeyInForce(x) ==
    \E r \in api_keys, u \in users : r.id = x.id /\ ~r.revoked /\ u.id = r.user_id

\* C13: an issued key authenticates exactly while its row is not revoked and
\* its owner exists, whatever the owner's password_changed_at; and every
\* step, a password change of the owner included, leaves such a key in force
\* unless it revokes the key.
C13_KeySurvivesPasswordChange ==
    /\ [](\A x \in keysOut : KeyAuthenticates(x) <=> KeyInForce(x))
    /\ [](\A x \in keysOut :
              (OwnerChangedPassword(x) /\ ~RevokedKey(x)) => KeyAuthenticates(x))
    /\ [][\A x \in keysOut : KeyInForce(x) => (KeyInForce(x)' \/ RevokedKey(x)')]_vars

\* A key was used, its owner changed the password later, and the key still
\* authenticates.
C13_Witness ==
    \E x \in keysOut, r \in api_keys, u \in users :
        /\ r.id = x.id /\ u.id = r.user_id
        /\ IsSome(r.last_used_at) /\ IsSome(u.password_changed_at)
        /\ Get(r.last_used_at) < Get(u.password_changed_at)
        /\ KeyAuthenticates(x)

\* ---- C14
\* The outcomes of the three middlewares that accept bearer tokens.
BearerVariants(req, fault) ==
    {authorizer(req, fault), authorizerWithApiKey(req, fault).auth,
     authorizer_part_003(req, fault).auth}

\* The revocation policy of authorizer.ts 52-59 holds of token t.
PolicyRevokes(t) ==
    \E u \in SubjectOf(t) : TokenRevoked(u.password_changed_at, t.iat)

\* C14: no middleware that accepts bearer tokens attaches an identity for a
\* token the revocation policy revokes.
C14_EveryVariantRevokes ==
    \A t \in tokens, k \in ApiKeyInputs, fault \in Faults :
        PolicyRevokes(t) =>
            \A r \in BearerVariants(WithBearer(t, k), fault) :
                r.status # 0 /\ r.user = None

\* A revoked token that has not expired is refused by authorizer.ts and
\* accepted by the two other middlewares.
C14_Divergence ==
    \E t \in tokens :
        /\ PolicyRevokes(t) /\ IsSome(verifyJwt(t, now))
        /\ authorizer(WithBearer(t, None), "none").status = 401
        /\ authorizerWithApiKey(WithBearer(t, None), "none").auth.status = 0
        /\ authorizer_part_003(WithBearer(t, None), "none").auth.status = 0

\* ---- C15
\* Presented keys that do not split on "." into two non-empty parts: no dot,
\* more than one dot, an empty id, an empty secret; among them the keys
\* POST /api-keys hands out, which have no dot.
MalformedKeys ==
    {<<"guess">>, <<"k1", "s1", "x">>, <<"", "s1">>, <<"k1", "">>, <<"", "">>}
    \cup {x.key : x \in {y \in keysOut : Len(y.key) # 2}}

\* C15: a malformed key fails as invalid, and no table is read, in
\* verifyApiKey, in authorizerWithApiKey and in authorizer.
C15_MalformedFailsWithoutLookup ==
    \A k \in MalformedKeys, a \in NonBearer, fault \in Faults :
        LET v == verifyApiKey(k, fault)
            w == authorizerWithApiKey(WithKey(a, k), fault).auth
            z == authorizer(WithKey(a, k), fault)
        IN /\ v.ret = None /\ ~v.thrown /\ v.reads = <<>>
           /\ w.status = 401 /\ w.error = "Invalid API key" /\ w.reads = <<>>
           /\ z.status = 401 /\ z.error = "Invalid API key" /\ z.reads = <<>>

\* The part of C15 that holds: verifyApiKey and the middleware built on it.
C15_VerifyApiKeyRejectsMalformed ==
    \A k \in MalformedKeys, a \in NonBearer, fault \in Faults :
        LET v == verifyApiKey(k, fault)
            w == authorizerWithApiKey(WithKey(a, k), fault)
        IN /\ v.ret = None /\ ~v.thrown /\ v.reads = <<>> /\ v.api_keys = api_keys
           /\ w.auth.status = 401 /\ w.auth.error = "Invalid API key"
           /\ w.auth.reads = <<>> /\ w.api_keys = api_keys

\* authorizer looks a key without a dot up in api_keys, and accepts the one
\* POST /api-keys issued.
C15_Divergence ==
    /\ authorizer(WithKey(None, <<"guess">>), "none").reads = <<"api_keys">>
    /\ \E x \in keysOut :
           /\ x.key \in MalformedKeys
           /\ authorizer(WithKey(None, x.key), "none").status = 0

\* ---- C16
KeyIds == {r.id : r \in api_keys} \cup {"k0"}
RevokedIn(table, id) == {IF r.id = id THEN [r EXCEPT !.revoked = TRUE] ELSE r : r \in table}
Owns(userId, id) == \E r \in api_keys : r.id = id /\ r.user_id = userId
Exists(id) == \E r \in api_keys : r.id = id

\* DELETE /api-keys/:id by a logged-in user: 200 and revoked = true on the
\* user's own key, 404 on no key, 403 on another user's key, and no record
\* changed in the last two cases.
RouteRevokes ==
    \A t \in tokens, id \in KeyIds :
        LET req == WithBearer(t, None)
            auth == authorizer(req, "none")
            d == DeleteApiKeyResult(req, id, "none")
        IN auth.status = 0 =>
               LET u == Get(auth.user).id IN
               /\ Owns(u, id) => d.resp.status = 200 /\ d.api_keys = RevokedIn(api_keys, id)
               /\ ~Exists(id) => d.resp.status = 404 /\ d.api_keys = api_keys
               /\ (Exists(id) /\ ~Owns(u, id)) => d.resp.status = 403 /\ d.api_keys = api_keys

\* revokeApiKey(userId, id): the same, failure being a throw or a false
\* return.
LibraryRevokes ==
    \A u \in users, id \in KeyIds :
        LET r == revokeApiKey(u.id, id, "none") IN
        /\ Owns(u.id, id) => r.ret /\ ~r.thrown /\ r.api_keys = RevokedIn(api_keys, id)
        /\ ~Owns(u.id, id) => (r.thrown \/ ~r.ret) /\ r.api_keys = api_keys

\* C16: revoking K for U sets revoked only when K belongs to U, reports
\* not-found for no K and forbidden for another user's K, and changes no
\* record in those two cases, through the route and through revokeApiKey.
C16_RevokeReportsFailure == RouteRevokes /\ LibraryRevokes

\* The part of C16 that holds: the route, and the records revokeApiKey leaves.
C16_RevokeOnlyOwnKey ==
    /\ RouteRevokes
    /\ \A u \in users, id \in KeyIds :
           LET r == revokeApiKey(u.id, id, "none") IN
           r.api_keys = IF Owns(u.id, id) THEN RevokedIn(api_keys, id) ELSE api_keys

\* A user asks for the revocation of another user's key: the route answers
\* 403, revokeApiKey returns true, and the key stays in force.
C16_Divergence ==
    \E t \in tokens, u \in users, r \in api_keys :
        /\ t.userId = Some(u.id) /\ r.user_id # u.id /\ ~r.revoked
        /\ DeleteApiKeyResult(WithBearer(t, None), r.id, "none").resp.status = 403
        /\ revokeApiKey(u.id, r.id, "none") = [api_keys |-> api_keys, thrown |-> FALSE, ret |-> TRUE]

\* ---- C17
\* The keys of a user under a name, and the tokens authorizer accepts.
KeysNamed(userId, name) == {r \in api_keys : r.user_id = userId /\ r.name = name}
InForce(rows) == {r \in rows : ~r.revoked}
LoggedIn == {t \in tokens : authorizer(WithBearer(t, None), "none").status = 0}
UserOf(t) == Get(t.userId)

\* Issuance failed as a duplicate and left the table alone: 409 from the
\* route; a throw or no key from createApiKeyForUser.
RouteDuplicate(d) == d.resp.status = 409 /\ d.api_keys = api_keys /\ d.resp.out = NoOut
LibraryDuplicate(c) == (c.thrown \/ ~IsSome(c.ret)) /\ c.api_keys = api_keys
\* Issuance added one row for the user under the name and returned its key.
Issued(table, userId, name) ==
    \E r \in table \ api_keys :
        /\ table = api_keys \cup {r}
        /\ r.user_id = userId /\ r.name = name /\ ~r.revoked
RouteIssued(d, userId, name) ==
    d.resp.status = 201 /\ IsSome(d.resp.out.key) /\ Issued(d.api_keys, userId, name)
LibraryIssued(c, userId, name) ==
    ~c.thrown /\ IsSome(c.ret) /\ Issued(c.api_keys, userId, name)

\* C17: issuing a key under a name the owner holds a key in force under
\* fails as a duplicate and creates no record; under a name the owner holds
\* no key under it succeeds, whoever else holds that name; through
\* POST /api-keys and through createApiKeyForUser.
C17_DuplicateNameRefused ==
    \A t \in LoggedIn, name \in KeyNames :
        LET d == CreateApiKeyResult(WithBearer(t, None), name, "none")
            c == createApiKeyForUser(UserOf(t), name, "none")
        IN /\ InForce(KeysNamed(UserOf(t), name)) # {} =>
                  RouteDuplicate(d) /\ LibraryDuplicate(c)
           /\ KeysNamed(UserOf(t), name) = {} =>
                  RouteIssued(d, UserOf(t), name) /\ LibraryIssued(c, UserOf(t), name)

\* The part of C17 that holds: the route.
C17_RouteRefusesDuplicate ==
    \A t \in LoggedIn, name \in KeyNames :
        LET d == CreateApiKeyResult(WithBearer(t, None), name, "none") IN
        /\ InForce(KeysNamed(UserOf(t), name)) # {} => RouteDuplicate(d)
        /\ KeysNamed(UserOf(t), name) = {} => RouteIssued(d, UserOf(t), name)

\* One user holds a key under a name and another user is logged in: the
\* route refuses the first and serves the second, createApiKeyForUser serves
\* both.
C17_Divergence ==
    \E t1 \in LoggedIn, t2 \in LoggedIn, name \in KeyNames :
        /\ InForce(KeysNamed(UserOf(t1), name)) # {} /\ KeysNamed(UserOf(t2), name) = {}
        /\ RouteDuplicate(CreateApiKeyResult(WithBearer(t1, None), name, "none"))
        /\ RouteIssued(CreateApiKeyResult(WithBearer(t2, None), name, "none"), UserOf(t2), name)
        /\ LibraryIssued(createApiKeyForUser(UserOf(t1), name, "none"), UserOf(t1), name)

\* ---- C18
\* C18: an owner all of whose keys under a name are revoked can issue a new
\* key under that name.
C18_RevokedNameCanBeReissued ==
    \A t \in LoggedIn, name \in KeyNames :
        InForce(KeysNamed(UserOf(t), name)) = {} =>
            RouteIssued(CreateApiKeyResult(WithBearer(t, None), name, "none"), UserOf(t), name)

\* An owner's only key under a name is revoked, and POST /api-keys refuses
\* the name as a duplicate.
C18_Divergence ==
    \E t \in LoggedIn, name \in KeyNames :
        /\ KeysNamed(UserOf(t), name) # {} /\ InForce(KeysNamed(UserOf(t), name)) = {}
        /\ RouteDuplicate(CreateApiKeyResult(WithBearer(t, None), name, "none"))

\* ---- C19
\* The pairs of distinct rows in force with one owner and one name.
SameNameTwice ==
    {pair \in InForce(api_keys) \X InForce(api_keys) :
        /\ pair[1] # pair[2]
        /\ pair[1].user_id = pair[2].user_id /\ pair[1].name = pair[2].name}

\* C19: no owner holds two keys in force under one name, whatever the order
\* in which the steps of concurrent issuance requests are handled.
C19_NamesUniquePerOwner == SameNameTwice = {}

\* Two keys of POST /api-keys in force for one owner under one name: both
\* requests passed the name check before either inserted.
C19_Divergence ==
    \E pair \in SameNameTwice : IsSome(pair[1].hashed_key) /\ IsSome(pair[2].hashed_key)

\* ---- C20
\* The path a request takes: the bearer flow when the Authorization header
\* has the Bearer scheme, else the API-key flow when x-api-key has a value.
BearerPath(req) == startsWithBearer(req.authorization)
ApiKeyPath(req) == ~startsWithBearer(req.authorization) /\ HeaderPresent(req.apiKey)

\* The run r of a middleware on req ended in one of the two ways: an error
\* response and no identity, or next() and an identity marked by the path.
OneOutcome(req, r) ==
    \/ /\ r.status \in {401, 403, 500}
       /\ r.user = None /\ r.authMethod = None
    \/ /\ r.status = 0
       /\ IsSome(r.user) /\ IsSome(r.authMethod)
       /\ r.authMethod = Some("jwt") <=> BearerPath(req)
       /\ r.authMethod = Some("api_key") <=> ApiKeyPath(req)

\* C20: whatever the request and whatever the store does, a throwing store
\* call included, a run of authorizer and a run of authorizerWithApiKey ends
\* with one error response (401, 403 or 500) and no identity, or with next()
\* and an identity whose authMethod is "jwt" exactly on the bearer path and
\* "api_key" exactly on the API-key path.
C20_OneOutcome ==
    \A req \in Requests, fault \in Faults :
        /\ OneOutcome(req, authorizer(req, fault))
        /\ OneOutcome(req, authorizerWithApiKey(req, fault).auth)

\* A token and a key are out: authorizer has called next() on both paths,
\* authorizerWithApiKey on the bearer path, and both answer 500 to a
\* throwing store.
C20_Witness ==
    \E t \in tokens, x \in keysOut :
        /\ authorizer(WithBearer(t, Some(x.key)), "none").authMethod = Some("jwt")
        /\ authorizer(WithKey(None, x.key), "none").authMethod = Some("api_key")
        /\ authorizerWithApiKey(WithBearer(t, None), "none").auth.authMethod = Some("jwt")
        /\ authorizer(WithKey(None, x.key), "throw").status = 500
        /\ authorizerWithApiKey(WithBearer(t, None), "throw").auth.status = 500

\* ---- C21
MissingCredential ==
    AuthDeny(401, "Missing Authorization or x-api-key header", <<>>, None)

\* The requests without a Bearer Authorization header get the outcome of the
\* API-key flow on their x-api-key value when HasKey holds of it, and the
\* missing-credential answer otherwise: 401, no table read, no identity.
KeyPathExactlyWhen(HasKey(_)) ==
    \A a \in NonBearer, k \in ApiKeyInputs, fault \in Faults :
        LET r == authorizer([authorization |-> a, apiKey |-> k], fault) IN
        IF HasKey(k)
        THEN r = AuthorizerApiKey(Get(k), fault) /\ r # MissingCredential
        ELSE /\ r = MissingCredential
             /\ r.status = 401 /\ r.reads = <<>> /\ r.user = None /\ r.touch = None

SentAKey(k) == IsSome(k)
SentAKeyValue(k) == IsSome(k) /\ Get(k) # <<"">>

\* C21 as stated: without a Bearer header the API-key path is taken exactly
\* when an x-api-key header is present, and a request with neither
\* credential gets 401 with no store access and no identity.
C21_KeyPathWhenHeaderPresent == KeyPathExactlyWhen(SentAKey)

\* C21 with "present" read as "present with a value that is not empty": an
\* x-api-key header with an empty value is answered as a missing credential.
C21_KeyPathWhenHeaderHasValue == KeyPathExactlyWhen(SentAKeyValue)

\* A key is out: sent beside an Authorization header of another scheme it
\* authenticates, and the same request without it is a missing credential.
C21_Witness ==
    \E x \in keysOut, a \in NonBearer \ {None} :
        /\ authorizer([authorization |-> a, apiKey |-> Some(x.key)], "none").authMethod
               = Some("api_key")
        /\ authorizer([authorization |-> a, apiKey |-> None], "none") = MissingCredential
        /\ authorizer([authorization |-> a, apiKey |-> Some(<<"">>)], "none") = MissingCredential

\* ---- C22
\* The row of roles a user's role names in the store as it is now: None for
\* a user without a role and for a name without a row.
RoleRowNow(u) ==
    IF ~IsSome(u.role) \/ ~\E r \in roles : r.name = Get(u.role) THEN None
    ELSE Some(CHOOSE r \in roles : r.name = Get(u.role))

Permits(roleObj, permission) == IsSome(roleObj) /\ Get(roleObj)[permission] = TRUE

\* The credentials out and the user each belongs to.
Credentials ==
    {[req |-> WithBearer(t, None), userId |-> UserOf(t)] : t \in tokens}
    \cup {[req |-> WithKey(None, pair[1].key), userId |-> pair[2].user_id] :
             pair \in {q \in keysOut \X api_keys : q[1].id = q[2].id}}

\* C22: the identity of a request carries the row the store holds for the
\* user's role at that request, and the request is decided on it; a user
\* without a role, or with a role name that has no row, is authenticated
\* with a null role and is refused every permission.
C22_RoleReadOnEveryRequest ==
    \A c \in Credentials, u \in users :
        u.id = c.userId =>
            LET auth == authorizer(c.req, "none") IN
            /\ auth.status = 0
            /\ Get(auth.user).role = RoleRowNow(u)
            /\ GetMyUserResult(c.req, "none").status
                   = IF Permits(RoleRowNow(u), "can_get_my_user") THEN 200 ELSE 403
            /\ RoleRowNow(u) = None =>
                   \A p \in PermissionKeys : requirePermission(p, auth.user).status = 403

\* The USER role has lost can_get_my_user since startup: a user of that role
\* is refused, and a user whose role has no row is authenticated with a null
\* role.
C22_Witness ==
    \E c \in Credentials, u \in users, w \in users, t \in tokens :
        /\ u.id = c.userId /\ u.role = Some("USER")
        /\ IsSome(RoleRowNow(u)) /\ ~Permits(RoleRowNow(u), "can_get_my_user")
        /\ GetMyUserResult(c.req, "none").status = 403
        /\ w.role = Some("ADMIN") /\ UserOf(t) = w.id
        /\ authorizer(WithBearer(t, None), "none").status = 0
        /\ Get(authorizer(WithBearer(t, None), "none").user).role = None

\* ---- C23
\* The issued keys in force, by the middleware that accepts them.
ValidRouteKeys == {x \in keysOut : x.via = "route" /\ KeyInForce(x)}
ValidLibraryKeys == {x \in keysOut : x.via = "lib" /\ KeyInForce(x)}

\* authorizer answers a valid key in the step that starts the write: the
\* request is authenticated with the write started and not applied, whatever
\* writes are still in flight.
AuthorizerDoesNotWait ==
    \A x \in ValidRouteKeys, fault \in {"none", "touch"} :
        LET r == authorizer(WithKey(None, x.key), fault) IN
        /\ r.status = 0 /\ r.authMethod = Some("api_key")
        /\ r.touch = Some([id |-> x.id, at |-> now])

\* authorizerWithApiKey authenticates a valid key when the write fails.
FailedWriteStillAuthenticates ==
    \A x \in ValidLibraryKeys :
        LET w == authorizerWithApiKey(WithKey(None, x.key), "touch") IN
        w.auth.status = 0 /\ w.api_keys = api_keys

\* C23: on the API-key path the answer does not depend on the last_used_at
\* write: a valid key is authenticated with the write started or failed, and
\* no request waits for its write to complete.
C23_WriteNotAwaited ==
    /\ AuthorizerDoesNotWait
    /\ FailedWriteStillAuthenticates
    /\ verifying = <<>>

\* The part of C23 that holds: authorizer.ts, and a write that fails.
C23_WriteFailureNotSurfaced == AuthorizerDoesNotWait /\ FailedWriteStillAuthenticates

\* A request with a valid key of createApiKeyForUser has passed every check
\* and waits, unanswered, for the store to answer its update.
C23_Divergence ==
    \E i \in DOMAIN verifying, x \in ValidLibraryKeys :
        /\ verifying[i].apiKey = Some(x.key)
        /\ \E r \in api_keys : r.id = x.id /\ r.last_used_at = None

\* ---- C24
\* The api_keys table after the write the authorizer started has reached the
\* store.
AfterTouch(touch) ==
    IF ~IsSome(touch) THEN api_keys
    ELSE {IF r.id = Get(touch).id THEN [r EXCEPT !.last_used_at = Some(Get(touch).at)] ELSE r
          : r \in api_keys}

\* The rows the x-api-key value of a request presents: by its hash, or by
\* its id part.
PresentedRows(req) ==
    IF ~IsSome(req.apiKey) THEN {}
    ELSE {r \in api_keys :
             \/ r.hashed_key = Some(hashKey(trim(Get(req.apiKey))))
             \/ Len(Get(req.apiKey)) = 2 /\ r.id = Get(req.apiKey)[1]}

\* table is api_keys but for last_used_at of rows in allowed.
OnlyLastUsedAt(table, allowed) ==
    /\ Cardinality(table) = Cardinality(api_keys)
    /\ \A r \in api_keys :
           \/ r \in table
           \/ r \in allowed /\ \E b \in table : b = [r EXCEPT !.last_used_at = b.last_used_at]

\* C24: a run of the pipeline writes nothing on the bearer path, and on the
\* API-key path nothing but last_used_at of the row of the presented key:
\* every other field and every other row of api_keys stays as it is.  (The
\* middlewares hold no write to users or roles.)
C24_OnlyLastUsedAtWritten ==
    \A req \in Requests, fault \in Faults :
        LET r == authorizer(req, fault)
            w == authorizerWithApiKey(req, fault)
        IN /\ BearerPath(req) => r.touch = None /\ w.api_keys = api_keys
           /\ OnlyLastUsedAt(AfterTouch(r.touch), PresentedRows(req))
           /\ OnlyLastUsedAt(w.api_keys, PresentedRows(req))
           /\ w.auth.touch = None

\* An owner holds two keys; a request with one of them is authenticated and
\* last_used_at of that row alone is written.
C24_Witness ==
    \E x \in keysOut, r \in api_keys, o \in api_keys :
        /\ r.id = x.id /\ o.id # x.id /\ x.via = "lib"
        /\ LET w == authorizerWithApiKey(WithKey(None, x.key), "none") IN
           /\ w.auth.status = 0
           /\ w.api_keys = {o, [r EXCEPT !.last_used_at = Some(now)]}
           /\ w.api_keys # api_keys

\* ---- C25
\* Row b is row a but for last_used_at, and for revoked going from false to
\* true.
SameRecord(a, b) ==
    /\ b.id = a.id /\ b.user_id = a.user_id /\ b.name = a.name
    /\ b.hashed_key = a.hashed_key /\ b.token_hash = a.token_hash
    /\ a.revoked => b.revoked

\* C25: through every step every api_keys row stays, with its id, owner,
\* name and hashes; only last_used_at and revoked change, and revoked only
\* from false to true, also in the step that applies a last_used_at write
\* started before the row was revoked.
C25_RecordsImmutable ==
    [][\A a \in api_keys : \E b \in api_keys' : SameRecord(a, b)]_vars

\* A key was accepted, its last_used_at write is still in flight, and the
\* row has been revoked since.
C25_Witness ==
    \E r \in RevokedRows, t \in touches : t.id = r.id /\ r.last_used_at = None

\* ---- C26
\* The status each middleware that accepts API keys answers a key with.
KeyStatuses(key) ==
    [authorizer |-> authorizer(WithKey(None, key), "none").status,
     authorizerWithApiKey |-> authorizerWithApiKey(WithKey(None, key), "none").auth.status,
     part_003 |-> authorizer_part_003(WithKey(None, key), "none").auth.status]

\* The middlewares that take the keys of an issuance operation: the hashed
\* keys of POST /api-keys, the id.token keys of createApiKeyForUser.
AcceptedBy(x) ==
    IF x.via = "route" THEN {"authorizer", "part_003"} ELSE {"authorizerWithApiKey"}

UnknownKeys == {<<"guess">>, <<"k0", "guess">>}
WrongSecretKeys == {<<r.id, "guess">> : r \in {k \in api_keys : IsSome(k.token_hash)}}

\* C26: a revoked key is answered 403, an unknown key and a wrong secret
\* 401, by every middleware that accepts API keys.
C26_Revoked403Unknown401 ==
    /\ \A x \in keysOut : RevokedKey(x) =>
           \A m \in AcceptedBy(x) : KeyStatuses(x.key)[m] = 403
    /\ \A k \in UnknownKeys \cup WrongSecretKeys :
           \A m \in {"authorizer", "authorizerWithApiKey", "part_003"} :
               KeyStatuses(k)[m] = 401

\* The part of C26 that holds: authorizer.ts and the earlier authorizer on
\* revoked keys, every middleware on unknown keys and wrong secrets.
C26_ExceptRevokedInVerifyApiKey ==
    /\ \A x \in keysOut : (RevokedKey(x) /\ x.via = "route") =>
           \A m \in AcceptedBy(x) : KeyStatuses(x.key)[m] = 403
    /\ \A k \in UnknownKeys \cup WrongSecretKeys :
           \A m \in {"authorizer", "authorizerWithApiKey", "part_003"} :
               KeyStatuses(k)[m] = 401

\* A revoked key of createApiKeyForUser is answered 401 "Invalid API key" by
\* authorizerWithApiKey.
C26_Divergence ==
    \E x \in keysOut :
        /\ x.via = "lib" /\ RevokedKey(x)
        /\ authorizerWithApiKey(WithKey(None, x.key), "none").auth
               = AuthDeny(401, "Invalid API key", <<"api_keys">>, None)

\* ---- C27
\* What the client sees of a run: the status and the error text of the body.
Response(r) == [status |-> r.status, error |-> r.error]
KeyResponses(key) ==
    [authorizer |-> Response(authorizer(WithKey(None, key), "none")),
     authorizerWithApiKey |-> Response(authorizerWithApiKey(WithKey(None, key), "none").auth),
     part_003 |-> Response(authorizer_part_003(WithKey(None, key), "none").auth)]

\* C27: a key with an id no row has and a key with the id of a row and a
\* wrong secret get the same response from each middleware.
C27_SameResponse ==
    \A r \in api_keys : KeyResponses(<<r.id, "guess">>) = KeyResponses(<<"k0", "guess">>)

\* The part of C27 that holds: the rows of createApiKeyForUser, and the
\* middlewares that look a key up by its hash.
C27_SameResponseForLibraryRows ==
    \A r \in api_keys :
        LET known == KeyResponses(<<r.id, "guess">>)
            unknown == KeyResponses(<<"k0", "guess">>)
        IN /\ known.authorizer = unknown.authorizer
           /\ known.part_003 = unknown.part_003
           /\ IsSome(r.token_hash) => known.authorizerWithApiKey = unknown.authorizerWithApiKey

\* The id of a row of POST /api-keys with any secret is answered 500 by
\* authorizerWithApiKey, an unknown id 401.
C27_Divergence ==
    \E r \in api_keys :
        /\ r.token_hash = None
        /\ KeyResponses(<<r.id, "guess">>).authorizerWithApiKey
               = [status |-> 500, error |-> "Internal server error"]
        /\ KeyResponses(<<"k0", "guess">>).authorizerWithApiKey
               = [status |-> 401, error |-> "Invalid API key"]

\* ---- C28
\* The store conditions under which a query comes back with an error.
StoreErrors == {"users", "roles", "api_keys"}
\* The run made a query on the failing table.
StoreFailedIn(r, fault) == \E i \in DOMAIN r.reads : r.reads[i] = fault
GenericError(r) == r.status = 500 /\ r.error = "Internal server error"

\* C28: a run of authorizer in which a lookup of the users, roles or
\* api_keys table failed answers 500 "Internal server error", never 401, 403
\* or next().
C28_StoreFailureIs500 ==
    \A c \in Credentials : \A fault \in StoreErrors :
        LET r == authorizer(c.req, fault) IN
        StoreFailedIn(r, fault) => GenericError(r)

\* What the code does with a failed lookup: a store call that throws is
\* answered 500; a query that returns an error is answered 401 for the users
\* and api_keys tables, and for the roles table the request goes on with
\* req.user.role = null.  No response carries the error of the store.
C28_StoreFailureByKind ==
    \A c \in Credentials :
        /\ authorizer(c.req, "none").status = 0 => GenericError(authorizer(c.req, "throw"))
        /\ \A fault \in StoreErrors :
               LET r == authorizer(c.req, fault) IN
               StoreFailedIn(r, fault) =>
                   /\ r.error \in {"", "Invalid token user", "Invalid API key",
                                    "Invalid API key user"}
                   /\ fault = "roles" => r.status = 0 /\ Get(r.user).role = None
                   /\ fault = "users" => r.status = 401
                   /\ fault = "api_keys" => r.status = 401

\* A valid token whose user fetch fails is answered 401, and a valid
\* credential whose role fetch fails is let through.
C28_Divergence ==
    /\ \E c \in Credentials :
           /\ BearerPath(c.req)
           /\ authorizer(c.req, "none").status = 0
           /\ authorizer(c.req, "users").status = 401
    /\ \E c \in Credentials :
           /\ authorizer(c.req, "none").status = 0
           /\ StoreFailedIn(authorizer(c.req, "roles"), "roles")
           /\ authorizer(c.req, "roles").status = 0

\* ---- C29
\* The other revisions of utils/jwt.ts.  signJwt(payload, opts?) passes opts
\* on to jwt.sign; the routes call it with the payload alone, so the token
\* gets an iat and no exp.
signJwt_Opts(payload, t) ==
    [userId |-> payload.userId, email |-> payload.email,
     iat |-> Some(t \div 1000), exp |-> None, sig |-> "server", ms |-> t]

\* One hour, the default expiresIn of signJwt(payload, expiresIn = "1h").
JWT_EXPIRES_1H_S == 3600
signJwt_1h(payload, t) ==
    [userId |-> payload.userId, email |-> payload.email,
     iat |-> Some(t \div 1000), exp |-> Some((t \div 1000) + JWT_EXPIRES_1H_S),
     sig |-> "server", ms |-> t]

\* POST /auth/signin built with one of these revisions: the handler of
\* SigninResult, its token signed by the revision's signJwt.
SigninOpts ==
    \E email \in Emails, password \in {"correct-horse", "short"} :
        LET r == SigninResult(email, password, "none")
            t == Get(r.resp.out.token)
        IN
        /\ IsSome(r.resp.out.token) => Cardinality(tokens) < MaxTokens
        /\ users' = r.users
        /\ tokens' = IF IsSome(r.resp.out.token)
                     THEN tokens \cup {signJwt_Opts([userId |-> t.userId, email |-> t.email], now)}
                     ELSE tokens
        /\ UNCHANGED <<now, roles, api_keys, keysOut, touches, lastLoginAttempt, loginLog, rest>>

Signin1h ==
    \E email \in Emails, password \in {"correct-horse", "short"} :
        LET r == SigninResult(email, password, "none")
            t == Get(r.resp.out.token)
        IN
        /\ IsSome(r.resp.out.token) => Cardinality(tokens) < MaxTokens
        /\ users' = r.users
        /\ tokens' = IF IsSome(r.resp.out.token)
                     THEN tokens \cup {signJwt_1h([userId |-> t.userId, email |-> t.email], now)}
                     ELSE tokens
        /\ UNCHANGED <<now, roles, api_keys, keysOut, touches, lastLoginAttempt, loginLog, rest>>

\* The clock over the life of a token: steps of an hour and of seven days,
\* at most MaxHours single hours after each step of seven days.
HourMs == 3600000
WeekMs == 604800000
MaxHours == 2
MaxWeeks == 1
TickExpiry ==
    /\ \/ /\ ((now - 10000) % WeekMs) \div HourMs < MaxHours
          /\ now' = now + HourMs
       \/ /\ (now - 10000) \div WeekMs < MaxWeeks
          /\ now' = now + WeekMs
    /\ UNCHANGED <<users, roles, api_keys, tokens, keysOut, touches,
                   lastLoginAttempt, loginLog, rest>>

NextExpiry == TickExpiry \/ Signin \/ SigninOpts \/ Signin1h \/ GetMyUser
SpecExpiry == Init /\ [][NextExpiry]_vars

NowSeconds == now \div 1000
BearerAccepted(t) == authorizer(WithBearer(t, None), "none").status = 0
BearerRejected(t) ==
    LET r == authorizer(WithBearer(t, None), "none") IN
    r.status = 401 /\ r.error = "Invalid or expired token"

\* C29: every token a signin produced has an exp; the authorizer accepts it
\* while the time is before exp and answers 401 once the time is past exp.
C29_TokensExpire ==
    \A t \in tokens :
        /\ IsSome(t.exp)
        /\ NowSeconds < Get(t.exp) => BearerAccepted(t)
        /\ NowSeconds > Get(t.exp) => BearerRejected(t)

\* The part of C29 that holds: a token that has an exp is accepted exactly
\* while the time in seconds is below exp.
C29_TokensWithExpExpire ==
    \A t \in tokens :
        IsSome(t.exp) =>
            /\ NowSeconds < Get(t.exp) <=> BearerAccepted(t)
            /\ NowSeconds >= Get(t.exp) <=> BearerRejected(t)

\* A token of signJwt(payload, opts?) is accepted more than seven days after
\* it was signed.
C29_Divergence ==
    \E t \in tokens :
        /\ t.exp = None
        /\ NowSeconds > Get(t.iat) + JWT_EXPIRES_IN_S
        /\ BearerAccepted(t)

\* ---- C30
\* select("id, name, revoked, last_used_at, created_at"): the columns of a
\* row that a listing returns (the model's rows carry no created_at).
ListedColumns(r) ==
    [id |-> r.id, name |-> r.name, revoked |-> r.revoked, last_used_at |-> r.last_used_at]

\* Variant of listApiKeysForUser that selects every column.
listApiKeysForUser_AllColumns(userId, fault) ==
    IF fault \in {"throw", "api_keys"}
    THEN [thrown |-> TRUE, ret |-> {}]
    ELSE [thrown |-> FALSE, ret |-> {r \in api_keys : r.user_id = userId}]

\* listApiKeysForUser(userId), utils/apiKeys.ts 44-53: the rows of the user,
\* the listed columns only.  A query error is thrown.
listApiKeysForUser(userId, fault) ==
    IF fault \in {"throw", "api_keys"}
    THEN [thrown |-> TRUE, ret |-> {}]
    ELSE [thrown |-> FALSE,
          ret |-> {ListedColumns(r) : r \in {k \in api_keys : k.user_id = userId}}]

\* Variant of GET /api-keys without the session test.
GetApiKeysResult_AnyMethod(req, fault) ==
    LET auth == authorizer(req, fault)
        Answer(status, error, apiKeys) ==
            [resp |-> Resp("list_keys", req, None, fault, auth, status, error, NoOut),
             apiKeys |-> apiKeys]
    IN
    IF auth.status # 0 THEN Answer(auth.status, auth.error, None)
    ELSE IF ~IsSome(auth.user) THEN Answer(401, "Unauthorized", None)
    ELSE IF fault = "api_keys" THEN Answer(500, "Internal server error", None)
    ELSE Answer(200, "",
                Some({ListedColumns(r) : r \in {k \in api_keys : k.user_id = Get(auth.user).id}}))

\* GET /api-keys, routes/apiKeys.ts 84-110: the response and, on a 200, the
\* apiKeys array of its body.
GetApiKeysResult(req, fault) ==
    LET auth == authorizer(req, fault)
        Answer(status, error, apiKeys) ==
            [resp |-> Resp("list_keys", req, None, fault, auth, status, error, NoOut),
             apiKeys |-> apiKeys]
    IN
    IF auth.status # 0 THEN Answer(auth.status, auth.error, None)
    ELSE IF ~IsSome(auth.user) THEN Answer(401, "Unauthorized", None)
    ELSE IF auth.authMethod # Some("jwt")
    THEN Answer(403, "Must be authenticated via user session to manage API keys", None)
    ELSE IF fault = "api_keys" THEN Answer(500, "Internal server error", None)
    ELSE Answer(200, "",
                Some({ListedColumns(r) : r \in {k \in api_keys : k.user_id = Get(auth.user).id}}))

\* What is kept of a listing: who asked, the status and the records returned.
Listing(via, userId, status, apiKeys) ==
    [via |-> via, userId |-> userId, status |-> status, apiKeys |-> apiKeys]

GetApiKeys ==
    \E req \in SentRequests :
        LET r == GetApiKeysResult(req, "none")
            caller == IF IsSome(r.resp.auth.user) THEN Some(Get(r.resp.auth.user).id) ELSE None
        IN
        /\ CanStart(r.resp.auth)
        /\ touches' = StartTouch(r.resp.auth)
        /\ listed' = Some(Listing("route", caller, r.resp.status, r.apiKeys))
        /\ UNCHANGED <<now, users, roles, api_keys, tokens, keysOut, lastLoginAttempt,
                       loginLog, gateRun, sales, hook, issuing, verifying>>

\* A caller lists the keys of a user with listApiKeysForUser.
ListApiKeysForUser ==
    \E u \in users :
        LET r == listApiKeysForUser(u.id, "none") IN
        /\ listed' = Some(Listing("lib", Some(u.id), 200, Some(r.ret)))
        /\ UNCHANGED <<now, users, roles, api_keys, tokens, keysOut, touches,
                       lastLoginAttempt, loginLog, gateRun, sales, hook, issuing, verifying>>

NextList ==
    \/ Signin
    \/ PostApiKeysBegin
    \/ PostApiKeysEnd
    \/ CreateApiKeyForUser
    \/ DeleteApiKey
    \/ GetApiKeys
    \/ ListApiKeysForUser

SpecList == Init /\ [][NextList]_vars

\* The random part of a plaintext key, and the digests the two issuance
\* paths store for the secrets of the model.
SecretOf(key) == key[Len(key)]
Secrets == {Secret(n) : n \in 1..MaxIssued}
StoredDigests ==
    [hashed_key : {Some(hashKey(<<sec>>)) : sec \in Secrets}, token_hash : {None}]
    \cup [hashed_key : {None}, token_hash : {Some(HmacHex(sec)) : sec \in Secrets}]

\* Every secret was handed out by one issuance response.
IssuedOnce ==
    \A x, y \in keysOut : SecretOf(x.key) = SecretOf(y.key) => x = y
\* No column of a row holds a secret: the key columns hold digests.
NeverStored ==
    \A r \in api_keys :
        /\ [hashed_key |-> r.hashed_key, token_hash |-> r.token_hash] \in StoredDigests
        /\ r.id \notin Secrets
        /\ r.name \notin Secrets
\* A listing returns records of the caller's rows, without the key columns.
ListingSanitized(l) ==
    IsSome(l.apiKeys) =>
        \A rec \in Get(l.apiKeys) :
            /\ DOMAIN rec = {"id", "name", "revoked", "last_used_at"}
            /\ rec.id \notin Secrets /\ rec.name \notin Secrets
            /\ \E r \in api_keys : r.id = rec.id /\ Some(r.user_id) = l.userId

\* C30: a plaintext secret is in one issuance response and in no row of the
\* store; a listing returns only rows of the caller, and of these only the
\* id, name, revoked and last_used_at columns.
C30_SecretOnlyInIssuance ==
    /\ IssuedOnce
    /\ NeverStored
    /\ IsSome(listed) => ListingSanitized(Get(listed))
    /\ \A req \in SentRequests : GetApiKeysResult(req, "none").resp.out = NoOut

\* A user with a key has listed the keys through GET /api-keys and got a
\* record back, while another user has a key as well.
C30_Witness ==
    /\ IsSome(listed)
    /\ Get(listed).via = "route"
    /\ Get(listed).status = 200
    /\ Get(Get(listed).apiKeys) # {}
    /\ \E r \in api_keys : Some(r.user_id) # Get(listed).userId
    /\ keysOut # {}

\* ---- C31
\* The requests the authorizer authenticates through an API key.
KeyAuthenticated ==
    {req \in SentRequests : authorizer(req, "none").authMethod = Some("api_key")}
SessionOnly == "Must be authenticated via user session to manage API keys"
Refused(resp) == resp.status = 403 /\ resp.error = SessionOnly
ManagedIds == {r.id : r \in api_keys} \cup {"k0"}

\* No management request authenticated through an API key creates, lists or
\* revokes a key.
KeyManagesNothing ==
    \A req \in KeyAuthenticated :
        /\ \A name \in KeyNames \cup {""} :
               LET r == CreateApiKeyResult(req, name, "none") IN
               r.api_keys = api_keys /\ r.resp.out = NoOut
        /\ GetApiKeysResult(req, "none").apiKeys = None
        /\ \A id \in ManagedIds : DeleteApiKeyResult(req, id, "none").api_keys = api_keys

\* C31 as stated: POST, GET and DELETE /api-keys answer 403 to every request
\* authenticated through an API key, and change nothing.
C31_KeyAuthIs403 ==
    /\ KeyManagesNothing
    /\ \A req \in KeyAuthenticated :
           /\ \A name \in KeyNames \cup {""} : Refused(CreateApiKeyResult(req, name, "none").resp)
           /\ Refused(GetApiKeysResult(req, "none").resp)
           /\ \A id \in ManagedIds : Refused(DeleteApiKeyResult(req, id, "none").resp)

\* C31 amended: a POST whose body fails validateBody is answered 400 before
\* the session test; every other management request authenticated through
\* an API key is answered 403; none changes or returns anything.
C31_KeyAuthIs403OrInvalidBody ==
    /\ KeyManagesNothing
    /\ \A req \in KeyAuthenticated :
           /\ \A name \in KeyNames \cup {""} :
                  LET resp == CreateApiKeyResult(req, name, "none").resp IN
                  IF validateBody(name, 1).status # 0
                  THEN resp.status = 400
                  ELSE Refused(resp)
           /\ Refused(GetApiKeysResult(req, "none").resp)
           /\ \A id \in ManagedIds : Refused(DeleteApiKeyResult(req, id, "none").resp)
    /\ (IsSome(listed) /\ Get(listed).via = "route" /\ IsSome(Get(listed).apiKeys))
           => Get(listed).status = 200

\* A key that authenticates was presented to GET /api-keys and the answer
\* was 403 without a list.
C31_Witness ==
    /\ KeyAuthenticated # {}
    /\ IsSome(listed)
    /\ Get(listed).via = "route"
    /\ Get(listed).status = 403
    /\ Get(listed).apiKeys = None
    /\ IsSome(Get(listed).userId)

\* ---- C32
\* The login requests of the claim: the e-mail of an existing user in any
\* letter case, the user's password, a role row that allows login, and no
\* admitted attempt for the e-mail in the last LOGIN_LIMIT_MS.
RoleAllowsLogin(u) ==
    LET role == LoadRole(u, "none").roleObj IN
    IsSome(role) /\ Get(role).can_post_login = TRUE
NotLimited(email) == now - MapGetOr0(lastLoginAttempt, toLowerCase(email)) >= LOGIN_LIMIT_MS
GoodLogins ==
    {x \in [user : users, email : Emails, password : Passwords] :
        /\ toLowerCase(x.email) = x.user.email
        /\ BcryptCompare(x.password, x.user.password)
        /\ RoleAllowsLogin(x.user)
        /\ NotLimited(x.email)}
TokenFor(r, u) ==
    /\ r.status = 200
    /\ IsSome(r.out.token)
    /\ Get(r.out.token).userId = Some(u.id)
    /\ Get(r.out.token).sig = "server"

\* C32: such a request, sent with no credential, is answered 200 with a
\* signed token for the user by the login route.
C32_GoodLoginSucceeds ==
    \A x \in GoodLogins : TokenFor(LoginV3Result(x.email, x.password, "none"), x.user)

\* The part that holds: the handler behind the gate, and the revisions of
\* the route without the gate, answer such a request 200 with the token.
C32_HandlerSucceeds ==
    \A x \in GoodLogins :
        /\ TokenFor(LoginHandler(x.email, x.password, "none"), x.user)
        /\ TokenFor(LoginV1Result(x.email, x.password, "none"), x.user)
        /\ TokenFor(LoginV2Result(x.email, x.password, "none"), x.user)

\* The route answers the request 401 "Unauthorized": requirePermission runs
\* with req.user undefined.
C32_Divergence ==
    \E x \in GoodLogins :
        LET r == LoginV3Result(x.email, x.password, "none") IN
        r.status = 401 /\ r.error = "Unauthorized" /\ r.out = NoOut

\* ---- C33
\* The roles upsert of the migration with another can_post_login value:
\* ON CONFLICT (name) DO UPDATE SET can_post_login = EXCLUDED.can_post_login.
SetCanPostLogin ==
    \E r \in roles, b \in BOOLEAN :
        /\ r.can_post_login # b
        /\ roles' = (roles \ {r}) \cup {[r EXCEPT !.can_post_login = b]}
        /\ UNCHANGED <<now, users, api_keys, tokens, keysOut, touches, lastLoginAttempt,
                       loginLog, rest>>

NextBan == Tick \/ Signin \/ SetCanPostLogin \/ SetUserRole \/ LoginV2 \/ LoginV3
SpecBan == Init /\ [][NextBan]_vars

\* The users whose role row has can_post_login = false.
Banned == {u \in users : \E r \in roles : Some(r.name) = u.role /\ r.can_post_login = FALSE}
LoginInputs == [email : Emails, password : Passwords]
TokenOf(r) == IF IsSome(r.out.token) THEN Get(r.out.token).userId ELSE None
NoTokenFor(u, Login(_, _, _), faults) ==
    \A x \in LoginInputs : \A fault \in faults :
        TokenOf(Login(x.email, x.password, fault)) # Some(u.id)

\* C33: no login response carries a token for a user whose role row has
\* can_post_login = false, for every password and every store condition of
\* the request.
C33_BannedGetsNoToken ==
    \A u \in Banned :
        /\ NoTokenFor(u, LoginV2Result, Faults)
        /\ NoTokenFor(u, LoginHandler, Faults)

\* The part that holds: no token when the roles query of the request
\* answers.
C33_BannedGetsNoTokenWhenRoleIsRead ==
    \A u \in Banned :
        /\ NoTokenFor(u, LoginV2Result, Faults \ {"roles"})
        /\ NoTokenFor(u, LoginHandler, Faults \ {"roles"})

\* A banned user's login with the right password, while the roles query
\* comes back with an error, is answered 200 with a token for the user.
C33_Divergence ==
    \E u \in Banned : \E x \in LoginInputs :
        LET r == LoginV2Result(x.email, x.password, "roles") IN
        /\ r.status = 200
        /\ TokenOf(r) = Some(u.id)
        /\ LoginV2Result(x.email, x.password, "none").status = 403

\* ---- C34
\* Bearer tokens a client can send: the signed ones, a forged one, and
\* signed ones without a userId or with the id of no user, forged or not.
NoSubject(t) == [t EXCEPT !.userId = None]
UnknownSubject(t) == [t EXCEPT !.userId = Some(99)]
BearerCases ==
    LET signed == tokens \cup {ForgedToken} IN
    signed \cup {NoSubject(t) : t \in signed} \cup {UnknownSubject(t) : t \in signed}
RevokedFor(t) ==
    \E u \in SubjectOf(t) : TokenRevoked(u.password_changed_at, t.iat)
Terminal(r, error, reads) ==
    /\ r.status = 401 /\ r.error = error
    /\ r.reads = reads
    /\ r.user = None /\ r.authMethod = None

\* C34: on the bearer path the token is verified, then its userId tested,
\* then the user read, then the revocation tested, then the role read.  A
\* token that fails verification or has no userId causes no store read; an
\* unknown user or a revoked token causes a read of users only and attaches
\* no identity; only an accepted token reads the role.
C34_BearerOrder ==
    \A t \in BearerCases : \A fault \in {"none", "roles"} :
        LET r == authorizer(WithBearer(t, None), fault) IN
        IF ~IsSome(verifyJwt(t, now)) THEN Terminal(r, "Invalid or expired token", <<>>)
        ELSE IF ~IsSome(t.userId) THEN Terminal(r, "Invalid token payload", <<>>)
        ELSE IF SubjectOf(t) = {} THEN Terminal(r, "Invalid token user", <<"users">>)
        ELSE IF RevokedFor(t) THEN Terminal(r, "Invalid or expired token", <<"users">>)
        ELSE /\ r.status = 0
             /\ r.reads = IF \E u \in SubjectOf(t) : IsSome(u.role)
                          THEN <<"users", "roles">> ELSE <<"users">>
             /\ IsSome(r.user) /\ Some(Get(r.user).id) = t.userId

\* A token of a user who changed the password afterwards is rejected after
\* the read of users alone, while another token is accepted with the role
\* read.
C34_Witness ==
    /\ \E t \in tokens :
           /\ RevokedFor(t)
           /\ authorizer(WithBearer(t, None), "none").reads = <<"users">>
    /\ \E t \in tokens :
           /\ ~RevokedFor(t)
           /\ authorizer(WithBearer(t, None), "none").reads = <<"users", "roles">>

\* ---- C35
\* What a run of each middleware does to last_used_at: the ids of the rows
\* whose value it changes or whose write it starts.
LastUsedOf(table) == {<<r.id, r.last_used_at>> : r \in table}
Touched(table) == {r.id : r \in {k \in table : <<k.id, k.last_used_at>> \notin LastUsedOf(api_keys)}}
MiddlewareRuns(req, fault) ==
    LET a == authorizer(req, fault)
        w == authorizerWithApiKey(req, fault)
        p == authorizer_part_003(req, fault)
    IN {[by |-> "authorizer", auth |-> a,
         touched |-> IF IsSome(a.touch) THEN {Get(a.touch).id} ELSE {}],
        [by |-> "authorizerWithApiKey", auth |-> w.auth, touched |-> Touched(w.api_keys)],
        [by |-> "part_003", auth |-> p.auth, touched |-> Touched(p.api_keys)]}
KeyRequests == {req \in SentRequests : req.apiKey # None}
\* The rows of the key a request presents.
PresentedIds(req) == {x.id : x \in {y \in keysOut : Some(y.key) = req.apiKey}}

\* C35: a request answered 401, 403 or 500 by the middleware writes no
\* last_used_at; an authenticated one writes only that of the key it
\* presented.
C35_RejectedWritesNothing ==
    \A req \in KeyRequests : \A fault \in Faults :
        \A run \in MiddlewareRuns(req, fault) :
            IF run.auth.status # 0
            THEN run.touched = {}
            ELSE run.touched \subseteq
                     IF run.auth.authMethod = Some("api_key") THEN PresentedIds(req) ELSE {}

\* The part that holds: the same, but for the requests rejected because the
\* fetch of the key's owner failed, which is after the write.
C35_ExceptOwnerFetchFailure ==
    \A req \in KeyRequests : \A fault \in Faults :
        \A run \in MiddlewareRuns(req, fault) :
            IF run.auth.status # 0
            THEN run.auth.error \notin {"Invalid API key user", "Invalid token user"}
                     => run.touched = {}
            ELSE run.touched \subseteq
                     IF run.auth.authMethod = Some("api_key") THEN PresentedIds(req) ELSE {}

\* A valid key presented while the users query fails: authorizer answers
\* 401 and has started the write of the key's last_used_at.
C35_Divergence ==
    \E x \in keysOut :
        LET r == authorizer(WithKey(None, x.key), "users") IN
        /\ r.status = 401
        /\ r.error = "Invalid API key user"
        /\ IsSome(r.touch) /\ Get(r.touch).id = x.id

\* ---- C36
\* The handler of lines 439-506 taken by itself, as it runs once a request
\* is past the middlewares of line 438: the limiter up to the first await.
LimiterBegin ==
    \E email \in Emails, password \in Passwords :
        LET r == LoginLimiter(email) IN
        /\ Len(loginLog) < MaxLog
        /\ loginLog' = Append(loginLog,
               [variant |-> "handler", email |-> email, password |-> password, at |-> now,
                status |-> r.status, admitted |-> r.admitted, retryAfter |-> r.retryAfter,
                pending |-> r.status = 0])
        /\ lastLoginAttempt' = r.map
        /\ UNCHANGED <<now, users, roles, api_keys, tokens, keysOut, touches, rest>>

NextLimiter == LoginTick \/ Signin \/ LimiterBegin \/ LoginEnd
SpecLimiter == Init /\ [][NextLimiter]_vars

NormalizedEmails == {toLowerCase(e) : e \in Emails}
StampOf(map, k) == MapGetOr0(map, k)
\* The attempts of the log admitted for a normalized e-mail.
AdmittedFor(k) ==
    {i \in DOMAIN loginLog : toLowerCase(loginLog[i].email) = k /\ loginLog[i].admitted}

NewPasswords == {"battery-staple", "short"}
\* The user a request is authenticated as, if any.
AuthenticatedAs(req) ==
    LET a == authorizer(req, "none") IN
    IF a.status = 0 THEN {u \in users : u.id = Get(a.user).id} ELSE {}
ReachesHandler(req, newPassword) ==
    LET a == authorizer(req, "none") IN
    /\ a.status = 0
    /\ validateBody(newPassword, 8).status = 0
    /\ requirePermission("can_post_login", a.user).status = 0

\* C37: a change-password request with a wrong old password changes no row
\* of users (so no password, no password_changed_at, and the fate of no
\* token), and is answered 400 once it is authenticated, valid and
\* permitted; a request answered 200 sets the password and sets
\* password_changed_at to the current time, not earlier than the value it
\* replaces; nothing else of the table changes.
C37_ChangePassword ==
    /\ \A u \in users : IsSome(u.password_changed_at) => Get(u.password_changed_at) <= now
    /\ \A req \in SentRequests, old \in Passwords, new \in NewPasswords :
           LET r == ChangePasswordResult(req, old, new, "none") IN
           \A u \in AuthenticatedAs(req) :
               IF ~BcryptCompare(old, u.password)
               THEN /\ r.users = users
                    /\ ReachesHandler(req, new) =>
                           r.resp.status = 400 /\ r.resp.error = "Old password is incorrect"
                    /\ \A t \in tokens :
                           LET before == authorizer(WithBearer(t, None), "none").status IN
                           before = 0 => ~TokenRevoked(
                               (CHOOSE w \in r.users : w.id = u.id).password_changed_at, t.iat)
                                         \/ Some(u.id) # t.userId
               ELSE r.resp.status = 200 <=> ReachesHandler(req, new)
    /\ \A req \in SentRequests, old \in Passwords, new \in NewPasswords :
           LET r == ChangePasswordResult(req, old, new, "none") IN
           IF r.resp.status = 200
           THEN \E u \in AuthenticatedAs(req) :
                    /\ r.users = (users \ {u}) \cup
                           {[u EXCEPT !.password = BcryptHash(new),
                                      !.password_changed_at = Some(now)]}
                    /\ IsSome(u.password_changed_at) => Get(u.password_changed_at) <= now
           ELSE r.users = users

\* A user who has changed the password once holds a token that is still
\* accepted; a request with that token and the old, now wrong, password is
\* answered 400, and one with the right password would be answered 200 at a
\* later time than the first change.
C37_Witness ==
    \E t \in tokens : \E u \in users :
        /\ Some(u.id) = t.userId
        /\ IsSome(u.password_changed_at)
        /\ Get(u.password_changed_at) < now
        /\ authorizer(WithBearer(t, None), "none").status = 0
        /\ ChangePasswordResult(WithBearer(t, None), "correct-horse", "battery-staple",
                                "none").resp.status = 400
        /\ ChangePasswordResult(WithBearer(t, None), "battery-staple", "battery-staple",
                                "none").resp.status = 200
====
